---- MODULE Spec2Model ----
(***************************************************************************)
(* A model of the async-winit reactor (src/src/reactor.rs), its timers     *)
(* (src/src/timer.rs) and the per-window registration                      *)
(* (src/src/window/registration.rs).                                       *)
(*                                                                         *)
(* The reactor is one shared object used by task threads and by the native *)
(* loop thread.  Each group of variables below is one part of it; each     *)
(* specification at the end of a part drives that part and leaves the      *)
(* others unchanged.                                                       *)
(***************************************************************************)
EXTENDS Integers, Sequences, FiniteSets, TLC

VARIABLES
    \* ---- wake-up handle -------------------------------------------------
    proxy,          \* Reactor.proxy: OnceLock<Arc<ReactorWaker>>, None or Some
    wake_pending,   \* a wake-up sent to the native loop and not yet handled
    \* ---- exit state -----------------------------------------------------
    exit_code,      \* Reactor.exit_code: AtomicI64, as a vector of 64 bits
    exit_pc,        \* per requesting thread: its position in request_exit
    last_request,   \* history: the code of the most recent request_exit
    observed,       \* what the native loop last read with exit_requested()
    \* ---- timers ---------------------------------------------------------
    now,            \* Instant::now(), in clock units
    timer_id,       \* Reactor.timer_id: the next id fetch_add hands out
    timer_op_queue, \* Reactor.timer_op_queue: the bounded staging queue
    timers,         \* Reactor.timers: the wheel, a map (deadline, id) -> waker
    timer,          \* the Timer objects: state, id_and_waker, deadline, period
    call,           \* per thread: the position of the call in progress
    held,           \* per direct caller: the keys it inserted and has not removed
    fired,          \* history: the batches process_timers appended to `wakers`
    staged_ops,     \* history: every operation a push has accepted
    applied_ops,    \* history: every operation process_timer_ops has applied
    retried_ops,    \* history: every operation whose push found the queue full
    insert_batch,   \* history: per id, Len(fired) when its Insert was staged
    id_owner,       \* history: per id, the Timer that allocated it
    results,        \* history: per Timer, the instants its polls returned
    created,        \* history: per Timer, the fields it was constructed with
    \* ---- event-loop operations -------------------------------------------
    evl_ops,        \* Reactor.evl_ops: the bounded channel of operations
    push,           \* per task: the position of its push_event_loop_op call
    pushed,         \* per task: how many operations it has pushed so far
    drain,          \* drain_loop_queue: iterations left, None when not running
    accepted,       \* history: the operations send() accepted, in order
    ran,            \* history: the operations op.run() was called on, in order
    \* ---- window registry -------------------------------------------------
    windows,        \* Reactor.windows: window id -> registration
    next_registration, \* identity of the next Registration::new()
    post,           \* post_event: the signal it is about to await, or None
    posts,          \* history: how many post_event calls were made
    last_post,      \* history: the event of the latest post_event call
    signals,        \* history: how many times a broadcaster was run
    last_signal,    \* history: the latest broadcaster run, and on what
    removed,        \* history: the ids remove_window was last called on, each
                    \* with the registration it took out, if any
    handles,        \* history: per id, the registration insert_window last
                    \* returned to its caller
    \* ---- whole calls ------------------------------------------------------
    last_call,      \* history: the latest whole call, its arguments and result
    \* ---- construction -----------------------------------------------------
    already_exists, \* the static ALREADY_EXISTS of Reactor::new
    new_pc,         \* per thread: the position of its Reactor::new call
    reactors,       \* history: the threads whose Reactor::new returned a Reactor
    \* ---- broadcaster ------------------------------------------------------
    listeners,      \* Handler: the registered listeners, in registration order
    broadcast,      \* Handler::run_with in progress: occurrence, listeners left
    delivered,      \* history: per listener and occurrence, times delivered
    snapshots,      \* history: per occurrence, who was registered when it began
    \* ---- locks ------------------------------------------------------------
    locks,          \* per Mutex of the Reactor: the thread holding its guard
    lk,             \* per thread: the reactor call it is in and where
    \* ---- running operations -----------------------------------------------
    run_trace,      \* history: per request run, what EventLoopOp::run did
    \* ---- Timer constructors ----------------------------------------------
    built           \* history: per Timer, the constructor call that made it

wakeVars == <<proxy, wake_pending>>
exitVars == <<exit_code, exit_pc, last_request, observed>>
wheelVars == <<timer_id, timer_op_queue, timers, fired,
               staged_ops, applied_ops, retried_ops, insert_batch, id_owner>>
timerVars == <<now, wheelVars, timer, call, held, results, created>>
opsVars == <<evl_ops, push, pushed, drain, accepted, ran>>
winVars == <<windows, next_registration, post, posts, last_post, signals,
             last_signal, removed, handles>>
callVars == <<last_call>>
newVars == <<already_exists, new_pc, reactors>>
handlerVars == <<listeners, broadcast, delivered, snapshots>>
lockVars == <<locks, lk>>
runVars == <<run_trace>>
ctorVars == <<built>>
miscVars == <<newVars, handlerVars, lockVars, runVars, ctorVars>>
loopVars == <<opsVars, winVars, callVars, miscVars>>
vars == <<wakeVars, exitVars, timerVars, loopVars>>

(***************************************************************************)
(* Option<T>: None is the empty sequence, Some(x) the one-element one.     *)
(***************************************************************************)
None == <<>>
Some(x) == <<x>>
IsSome(o) == o # None
Unwrap(o) == o[1]

(***************************************************************************)
(* Wake-up handle.                                                         *)
(***************************************************************************)
InitWake ==
    /\ proxy = None
    /\ wake_pending = FALSE

\* Reactor::set_proxy: OnceLock::set keeps the first value.
SetProxyValue(old, new) == IF IsSome(old) THEN old ELSE Some(new)

NotifyDropped(p, pending) == pending

\* Reactor::notify: wakes the loop only when a proxy has been set.
NotifyValue(p, pending) == IF IsSome(p) THEN TRUE ELSE pending

(***************************************************************************)
(* Exit state: an i64 holding a flag in bit 0 and the i32 code above it.   *)
(* 64-bit values are bit vectors [0..63 -> {0,1}], bit 0 the lowest.       *)
(***************************************************************************)
NEEDS_EXIT == 1
EXIT_CODE_SHIFT == 1

Bits64 == 0..63

\* Bit i of the two's complement form of the i32 c, sign-extended.
BitOfI32(c, i) ==
    IF i >= 31 THEN (IF c < 0 THEN 1 ELSE 0) ELSE (c \div (2^i)) % 2

\* `c as i64` for an i32 (or a small constant) c.
AsI64(c) == [i \in Bits64 |-> BitOfI32(c, i)]

\* a << n on i64.
Shl64(a, n) == [i \in Bits64 |-> IF i < n THEN 0 ELSE a[i - n]]

\* a >> n on i64 (arithmetic: the sign bit is copied in).
Shr64(a, n) == [i \in Bits64 |-> IF i + n > 63 THEN a[63] ELSE a[i + n]]

\* a | b and a & b on i64.
Or64(a, b) == [i \in Bits64 |-> IF a[i] = 1 \/ b[i] = 1 THEN 1 ELSE 0]
And64(a, b) == [i \in Bits64 |-> IF a[i] = 1 /\ b[i] = 1 THEN 1 ELSE 0]

IsZero64(a) == \A i \in Bits64 : a[i] = 0

RECURSIVE LowBitsValue(_, _)
\* The unsigned value of bits 0..n of a.
LowBitsValue(a, n) ==
    IF n < 0 THEN 0 ELSE a[n] * (2^n) + LowBitsValue(a, n - 1)

\* `a as i32`: the low 32 bits, read as two's complement.
AsI32(a) ==
    IF a[31] = 1 THEN (LowBitsValue(a, 30) - 2147483647) - 1
    ELSE LowBitsValue(a, 30)

\* The value request_exit stores: NEEDS_EXIT | (code as i64) << EXIT_CODE_SHIFT
\* (in Rust << binds tighter than |).
UnshiftedExitValue(code) == Or64(AsI64(NEEDS_EXIT), AsI64(code))
ExitValueCodeOnly(code) == Shl64(AsI64(code), EXIT_CODE_SHIFT)
ExitValue(code) == Or64(AsI64(NEEDS_EXIT), Shl64(AsI64(code), EXIT_CODE_SHIFT))

\* Reactor::exit_requested on the stored value.
exit_requested(value) ==
    IF ~IsZero64(And64(value, AsI64(NEEDS_EXIT)))
    THEN Some(AsI32(Shr64(value, EXIT_CODE_SHIFT)))
    ELSE None

\* The i32 codes tasks request: both ends of the range, zero, small ones.
ExitCodes ==
    {-2147483647 - 1, -1073741824, -42, -2, -1, 0, 1, 2, 42, 1073741823,
     1073741824, 2147483647}

\* The threads that may call request_exit, possibly at the same time.
Requesters == {"r1", "r2"}

InitExit ==
    /\ exit_code = AsI64(0)
    /\ exit_pc = [r \in Requesters |-> "idle"]
    /\ last_request = None
    /\ observed = None

(***************************************************************************)
(* Timers.  Instants and durations are whole clock units.  The clock runs  *)
(* from 0 to MaxTime; InstantMAX is the largest Instant that can be        *)
(* represented and DurationMAX (Duration::MAX) is longer than the whole    *)
(* range, so adding it to any Instant overflows.                           *)
(***************************************************************************)
MaxTime == 4
MaxTimerId == 3
TimerQueueCap == 2
MaxApiInserts == 2

InstantMAX == MaxTime + 1
DurationMAX == InstantMAX + 1

Instants == 0..MaxTime
Periods == {1, 3, DurationMAX}
\* The Timer objects, and the threads that call the reactor directly.
Timers == {"t1"}
Callers == {"c1", "c2"}
Threads == Timers \cup Callers
\* The deadlines the direct callers ask for, and the waker each one passes.
ApiDeadlines == {1, 2}
CallerWaker(c) == IF c = "c1" THEN "w1" ELSE "w2"
Wakers == {"w1", "w2"}

SaturatingAdd(instant, duration) ==
    IF instant + duration > InstantMAX THEN Some(InstantMAX)
    ELSE Some(instant + duration)

\* Instant::checked_add
checked_add(instant, duration) ==
    IF instant + duration > InstantMAX THEN None ELSE Some(instant + duration)

\* Waker::will_wake
WillWakeAny(w1, w2) == TRUE

WillWakeNone(w1, w2) == FALSE

will_wake(w1, w2) == w1 = w2

(***************************************************************************)
(* The staging queue: TimerOp values in a bounded FIFO queue.              *)
(***************************************************************************)
InsertTimer(deadline, id, waker) ==
    [op |-> "InsertTimer", deadline |-> deadline, id |-> id, waker |-> waker]
RemoveTimer(deadline, id) ==
    [op |-> "RemoveTimer", deadline |-> deadline, id |-> id]

\* ConcurrentQueue::capacity of the queue made by bounded(n)
QueueCapacity == TimerQueueCap

\* ConcurrentQueue::push fails exactly when the queue is full.
QueueFull(queue) == Len(queue) >= QueueCapacity

Range(seq) == {seq[i] : i \in 1..Len(seq)}

Min(a, b) == IF a < b THEN a ELSE b

(***************************************************************************)
(* The wheel: BTreeMap<(Instant, usize), Waker>, as the set of its         *)
(* entries; no two entries share a key.                                    *)
(***************************************************************************)
Entry(deadline, id, waker) == [deadline |-> deadline, id |-> id, waker |-> waker]
Key(e) == <<e.deadline, e.id>>

\* The order of the keys: tuples compare lexicographically.
KeyLess(k1, k2) == k1[1] < k2[1] \/ (k1[1] = k2[1] /\ k1[2] < k2[2])

\* BTreeMap::insert and BTreeMap::remove
WheelInsert(wheel, deadline, id, waker) ==
    {e \in wheel : Key(e) # <<deadline, id>>} \cup {Entry(deadline, id, waker)}
WheelRemove(wheel, deadline, id) ==
    {e \in wheel : Key(e) # <<deadline, id>>}

\* BTreeMap::split_off(key): the entries at or after key.
SplitOff(wheel, key) == {e \in wheel : ~KeyLess(Key(e), key)}

\* The first entry of a non-empty map.
LastEntry(wheel) == CHOOSE e \in wheel : \A f \in wheel : ~KeyLess(Key(e), Key(f))
FirstEntry(wheel) == CHOOSE e \in wheel : \A f \in wheel : ~KeyLess(Key(f), Key(e))

RECURSIVE IntoValues(_)
\* BTreeMap::into_values: the entries in key order.
IntoValues(wheel) ==
    IF wheel = {} THEN <<>>
    ELSE LET e == FirstEntry(wheel) IN <<e>> \o IntoValues(wheel \ {e})

\* One arm of the match in process_timer_ops.
ApplyLosingRemove(wheel, op) ==
    IF op.op = "InsertTimer"
    THEN WheelInsert(wheel, op.deadline, op.id, op.waker)
    ELSE wheel
ApplyOp(wheel, op) ==
    IF op.op = "InsertTimer"
    THEN WheelInsert(wheel, op.deadline, op.id, op.waker)
    ELSE WheelRemove(wheel, op.deadline, op.id)

RECURSIVE ApplyOps(_, _)
\* for_each over the operations taken from the queue, in queue order.
ApplyOps(wheel, ops) ==
    IF ops = <<>> THEN wheel ELSE ApplyOps(ApplyOp(wheel, Head(ops)), Tail(ops))

\* Reactor::process_timer_ops: takes at most capacity operations from the
\* head of the queue and applies them.  It runs under the wheel lock, so
\* no other drain overlaps it.
DropTaken(queue) == [taken |-> <<>>, rest |-> <<>>]
TakeOpsPeeking(queue) ==
    [taken |-> SubSeq(queue, 1, Min(Len(queue), QueueCapacity)), rest |-> queue]
TakeOps(queue) ==
    LET n == Min(Len(queue), QueueCapacity)
    IN [taken |-> SubSeq(queue, 1, n), rest |-> SubSeq(queue, n + 1, Len(queue))]

\* The wakers whose drop panics.
DropPanics(waker) == waker = "w2"

Uncaught(panics) == panics

\* std::panic::catch_unwind(|| drop(waker)).ok(): whether the panic of the
\* drop leaves the arm.
catch_unwind(panics) == FALSE

RECURSIVE ApplyOpsBackwards(_, _)
ApplyOpsBackwards(wheel, ops) ==
    IF ops = <<>>
    THEN [timers |-> wheel, rest |-> <<>>, panicked |-> FALSE]
    ELSE ApplyOpsBackwards(ApplyOp(wheel, ops[Len(ops)]),
                           SubSeq(ops, 1, Len(ops) - 1))

RECURSIVE ApplyOpsUnwinding(_, _)
\* for_each over the operations taken: a panic that leaves an arm ends it,
\* with the operations not yet taken from the queue left there.
ApplyOpsUnwinding(wheel, ops) ==
    IF ops = <<>>
    THEN [timers |-> wheel, rest |-> <<>>, panicked |-> FALSE]
    ELSE LET op == Head(ops)
             dropped == IF op.op = "RemoveTimer"
                        THEN {e \in wheel : Key(e) = <<op.deadline, op.id>>}
                        ELSE {}
         IN IF \E e \in dropped : catch_unwind(DropPanics(e.waker))
            THEN [timers |-> ApplyOp(wheel, op), rest |-> Tail(ops),
                  panicked |-> TRUE]
            ELSE ApplyOpsUnwinding(ApplyOp(wheel, op), Tail(ops))

process_timer_ops(wheel, queue) ==
    LET t == TakeOps(queue)
        a == ApplyOpsUnwinding(wheel, t.taken)
    IN [timers |-> a.timers, queue |-> a.rest \o t.rest, taken |-> t.taken,
        panicked |-> a.panicked]

(***************************************************************************)
(* Timer: the constructors of src/src/timer.rs.                            *)
(***************************************************************************)
never == [id_and_waker |-> None, deadline |-> None, period |-> DurationMAX]

interval_at(start, period) ==
    [id_and_waker |-> None, deadline |-> Some(start), period |-> period]

at(deadline) == interval_at(deadline, DurationMAX)

AfterUnchecked(duration, instant_now) == at(instant_now + duration)

after(duration, instant_now) ==
    LET d == checked_add(instant_now, duration)
    IN IF IsSome(d) THEN at(Unwrap(d)) ELSE never

interval(period, instant_now) ==
    LET d == checked_add(instant_now, period)
    IN IF IsSome(d) THEN interval_at(Unwrap(d), period) ELSE never

\* The Timers a task constructs at the instant instant_now: one by each
\* constructor and argument.
Constructed(instant_now) ==
    {never}
    \cup {at(d) : d \in Instants}
    \cup {interval_at(d, p) : d \in Instants, p \in Periods}
    \cup {after(p, instant_now) : p \in Periods}
    \cup {interval(p, instant_now) : p \in Periods}

(***************************************************************************)
(* Timer::poll_next and Timer::drop, step by step.  A Timer belongs to one *)
(* task, so its own fields are touched by one thread; the reactor calls    *)
(* it makes (remove_timer, insert_timer) interleave with those of the      *)
(* other Timers and with the native loop.  call[t].pc names the reactor    *)
(* call in progress by the line of timer.rs that makes it:                 *)
(*   fire_remove (98), fire_insert (107), reg_insert (118),                *)
(*   rereg_remove (124), rereg_insert (127), clear_remove (69),            *)
(* and call[t].sub the position inside that call: "id" (fetch_add),        *)
(* "push" (the push loop), "notify".                                       *)
(***************************************************************************)
IdleCall ==
    [pc |-> "idle", sub |-> "", waker |-> None, id |-> None,
     deadline |-> None, result_time |-> None]

RemoveLabels == {"fire_remove", "rereg_remove", "clear_remove", "api_remove"}
InsertLabels == {"fire_insert", "reg_insert", "rereg_insert", "api_insert"}

InitTimers ==
    /\ now = 0
    /\ timer_id = 1
    /\ timer_op_queue = <<>>
    /\ timers = {}
    /\ timer = [t \in Timers |-> [state |-> "unborn", id_and_waker |-> None,
                                  deadline |-> None, period |-> DurationMAX]]
    /\ call = [t \in Threads |-> IdleCall]
    /\ held = [c \in Callers |-> {}]
    /\ fired = <<>>
    /\ staged_ops = {}
    /\ applied_ops = {}
    /\ retried_ops = {}
    /\ insert_batch = {}
    /\ id_owner = {}
    /\ results = [t \in Timers |-> <<>>]
    /\ created = [t \in Timers |-> never]

\* The branch poll_next takes (timer.rs lines 94-132).
PollBranchKeepStale(T, waker, instant_now) ==
    IF ~IsSome(T.deadline) THEN "never"
    ELSE IF Unwrap(T.deadline) < instant_now THEN "fire"
    ELSE IF ~IsSome(T.id_and_waker) THEN "register"
    ELSE IF ~will_wake(Unwrap(T.id_and_waker)[2], waker) THEN "register"
    ELSE "same"
PollBranch(T, waker, instant_now) ==
    IF ~IsSome(T.deadline) THEN "never"
    ELSE IF Unwrap(T.deadline) < instant_now THEN "fire"
    ELSE IF ~IsSome(T.id_and_waker) THEN "register"
    ELSE IF ~will_wake(Unwrap(T.id_and_waker)[2], waker) THEN "reregister"
    ELSE "same"

\* let result_time = *deadline (line 101), taken before the deadline advances.
ResultTimeAfterAdvance(deadline, next) ==
    IF IsSome(next) THEN Unwrap(next) ELSE deadline
ResultTime(deadline, next) == deadline

FireContinueStaleDeadline(T, waker, res) ==
    LET d == Unwrap(T.deadline)
        next == checked_add(d, T.period)
    IN IF IsSome(next)
       THEN [timer |-> T,
             call |-> [IdleCall EXCEPT !.pc = "fire_insert", !.sub = "id",
                                       !.waker = Some(waker), !.deadline = next,
                                       !.result_time = Some(d)],
             results |-> res]
       ELSE [timer |-> [T EXCEPT !.deadline = None],
             call |-> IdleCall,
             results |-> Append(res, d)]

\* Lines 101-113: what the fire branch does once the stale entry is staged
\* for removal.  Gives the Timer, its call position and the results.
FireContinue(T, waker, res) ==
    LET d == Unwrap(T.deadline)
        next == checked_add(d, T.period)
        rt == ResultTime(d, next)
    IN IF IsSome(next)
       THEN [timer |-> [T EXCEPT !.deadline = next],
             call |-> [IdleCall EXCEPT !.pc = "fire_insert", !.sub = "id",
                                       !.waker = Some(waker), !.deadline = next,
                                       !.result_time = Some(rt)],
             results |-> res]
       ELSE [timer |-> [T EXCEPT !.deadline = None],
             call |-> IdleCall,
             results |-> Append(res, rt)]

\* The polls and drops that have still to allocate a timer id.
AllocsPending ==
    Cardinality({u \in Threads : call[u].pc \in {"fire_remove", "rereg_remove"}
                                \/ call[u].sub = "id"})
IdsLeft == timer_id + AllocsPending <= MaxTimerId

\* A task constructs a Timer.
NewTimer(t) ==
    /\ timer[t].state = "unborn"
    /\ \E c \in Constructed(now) :
         /\ timer' = [timer EXCEPT ![t] =
                [state |-> "live", id_and_waker |-> c.id_and_waker,
                 deadline |-> c.deadline, period |-> c.period]]
         /\ created' = [created EXCEPT ![t] = c]
    /\ UNCHANGED <<now, wheelVars, call, held, results, wakeVars, exitVars, loopVars>>

\* The clock advances.
Tick ==
    /\ now < MaxTime
    /\ now' = now + 1
    /\ UNCHANGED <<wheelVars, timer, call, held, results, created, wakeVars,
                   exitVars, loopVars>>

\* poll_next up to its first reactor call.
PollBegin(t, waker) ==
    /\ timer[t].state = "live"
    /\ call[t].pc = "idle"
    /\ LET T == timer[t]
           branch == PollBranch(T, waker, now)
       IN CASE branch = "fire" /\ IsSome(T.id_and_waker) ->
                 /\ IdsLeft
                 /\ timer' = [timer EXCEPT ![t].id_and_waker = None]
                 /\ call' = [call EXCEPT ![t] =
                        [IdleCall EXCEPT !.pc = "fire_remove", !.sub = "push",
                                         !.waker = Some(waker),
                                         !.deadline = T.deadline,
                                         !.id = Some(Unwrap(T.id_and_waker)[1])]]
                 /\ UNCHANGED results
            [] branch = "fire" /\ ~IsSome(T.id_and_waker) ->
                 /\ IdsLeft
                 /\ LET c == FireContinue(T, waker, results[t])
                    IN /\ timer' = [timer EXCEPT ![t] = c.timer]
                       /\ call' = [call EXCEPT ![t] = c.call]
                       /\ results' = [results EXCEPT ![t] = c.results]
            [] branch = "register" ->
                 /\ IdsLeft
                 /\ call' = [call EXCEPT ![t] =
                        [IdleCall EXCEPT !.pc = "reg_insert", !.sub = "id",
                                         !.waker = Some(waker),
                                         !.deadline = T.deadline]]
                 /\ UNCHANGED <<timer, results>>
            [] branch = "reregister" ->
                 /\ IdsLeft
                 /\ call' = [call EXCEPT ![t] =
                        [IdleCall EXCEPT !.pc = "rereg_remove", !.sub = "push",
                                         !.waker = Some(waker),
                                         !.deadline = T.deadline,
                                         !.id = Some(Unwrap(T.id_and_waker)[1])]]
                 /\ UNCHANGED <<timer, results>>
            [] OTHER ->
                 UNCHANGED <<timer, call, results>>
    /\ UNCHANGED <<now, wheelVars, held, created, wakeVars, exitVars, loopVars>>

\* Timer::drop -> Timer::clear: both fields are taken; a registered Timer
\* goes on to remove_timer.
DropBegin(t) ==
    /\ timer[t].state = "live"
    /\ call[t].pc = "idle"
    /\ LET T == timer[t]
       IN IF IsSome(T.deadline) /\ IsSome(T.id_and_waker)
          THEN /\ timer' = [timer EXCEPT ![t].deadline = None,
                                         ![t].id_and_waker = None]
               /\ call' = [call EXCEPT ![t] =
                      [IdleCall EXCEPT !.pc = "clear_remove", !.sub = "push",
                                       !.deadline = T.deadline,
                                       !.id = Some(Unwrap(T.id_and_waker)[1])]]
          ELSE /\ timer' = [timer EXCEPT ![t].deadline = None,
                                         ![t].id_and_waker = None,
                                         ![t].state = "dropped"]
               /\ UNCHANGED call
    /\ UNCHANGED <<now, wheelVars, held, results, created, wakeVars, exitVars, loopVars>>

\* A thread calls Reactor::insert_timer(deadline, waker) directly.
ApiInsertBegin(c, deadline, waker) ==
    /\ call[c].pc = "idle"
    /\ timer_id + AllocsPending <= MaxApiInserts
    /\ call' = [call EXCEPT ![c] =
           [IdleCall EXCEPT !.pc = "api_insert", !.sub = "id",
                            !.waker = Some(waker), !.deadline = Some(deadline)]]
    /\ UNCHANGED <<now, wheelVars, timer, held, results, created, wakeVars,
                   exitVars, loopVars>>

\* A thread calls Reactor::remove_timer(deadline, id) directly, for a key
\* insert_timer gave it.
ApiRemoveBegin(c, key) ==
    /\ call[c].pc = "idle"
    /\ key \in held[c]
    /\ held' = [held EXCEPT ![c] = @ \ {key}]
    /\ call' = [call EXCEPT ![c] =
           [IdleCall EXCEPT !.pc = "api_remove", !.sub = "push",
                            !.deadline = Some(key[1]), !.id = Some(key[2])]]
    /\ UNCHANGED <<now, wheelVars, timer, results, created, wakeVars, exitVars, loopVars>>

\* The operation the reactor call of thread t is pushing.
CurrentOp(t) ==
    IF call[t].pc \in RemoveLabels
    THEN RemoveTimer(Unwrap(call[t].deadline), Unwrap(call[t].id))
    ELSE InsertTimer(Unwrap(call[t].deadline), Unwrap(call[t].id),
                     Unwrap(call[t].waker))

\* The body of the while-let loop of insert_timer and remove_timer: the
\* push failed on a full queue, so the caller locks the wheel, applies the
\* staged operations and tries again.
DrainOnFull(t) ==
    /\ call[t].sub = "push"
    /\ QueueFull(timer_op_queue)
    /\ LET r == process_timer_ops(timers, timer_op_queue)
       IN /\ timers' = r.timers
          /\ timer_op_queue' = r.queue
          /\ applied_ops' = applied_ops \cup Range(r.taken)
    /\ retried_ops' = retried_ops \cup {CurrentOp(t)}
    /\ UNCHANGED <<now, timer_id, fired, staged_ops, insert_batch, id_owner,
                   timer, call, held, results, created, wakeVars, exitVars, loopVars>>

\* remove_timer: the push is accepted and the call returns.
RemoveAccepted(t) ==
    /\ call[t].pc \in RemoveLabels
    /\ ~QueueFull(timer_op_queue)
    /\ LET op == RemoveTimer(Unwrap(call[t].deadline), Unwrap(call[t].id))
       IN /\ timer_op_queue' = Append(timer_op_queue, op)
          /\ staged_ops' = staged_ops \cup {op}
    /\ UNCHANGED <<now, timer_id, timers, fired, applied_ops, retried_ops,
                   insert_batch,
                   id_owner, held, created, wakeVars, exitVars, loopVars>>

\* remove_timer returns to poll_next or to clear, which carries on to its
\* next reactor call or returns itself.
RemoveTimerPush(t) ==
    /\ t \in Timers
    /\ RemoveAccepted(t)
    /\ CASE call[t].pc = "fire_remove" ->
              LET c == FireContinue(timer[t], Unwrap(call[t].waker), results[t])
              IN /\ timer' = [timer EXCEPT ![t] = c.timer]
                 /\ call' = [call EXCEPT ![t] = c.call]
                 /\ results' = [results EXCEPT ![t] = c.results]
         [] call[t].pc = "rereg_remove" ->
              /\ call' = [call EXCEPT ![t].pc = "rereg_insert",
                                      ![t].sub = "id", ![t].id = None]
              /\ UNCHANGED <<timer, results>>
         [] OTHER ->
              /\ timer' = [timer EXCEPT ![t].state = "dropped"]
              /\ call' = [call EXCEPT ![t] = IdleCall]
              /\ UNCHANGED results

\* remove_timer returns to a direct caller.
ApiRemovePush(c) ==
    /\ c \in Callers
    /\ RemoveAccepted(c)
    /\ call' = [call EXCEPT ![c] = IdleCall]
    /\ UNCHANGED <<timer, results>>

FetchAddStale(value, n) == [old |-> value, new |-> value]

\* AtomicUsize::fetch_add: one step that adds n and gives the old value.
fetch_add(value, n) == [old |-> value, new |-> value + n]

\* insert_timer: the id is allocated.
InsertTimerId(t) ==
    /\ call[t].pc \in InsertLabels
    /\ call[t].sub = "id"
    /\ LET id == fetch_add(timer_id, 1)
       IN /\ timer_id' = id.new
          /\ id_owner' = id_owner \cup {<<id.old, t>>}
          /\ call' = [call EXCEPT ![t].id = Some(id.old), ![t].sub = "push"]
    /\ UNCHANGED <<now, timer_op_queue, timers, fired, staged_ops, applied_ops,
                   retried_ops, insert_batch, timer, held, results, created, wakeVars,
                   exitVars, loopVars>>

\* insert_timer: the push is accepted.
InsertTimerPush(t) ==
    /\ call[t].pc \in InsertLabels
    /\ call[t].sub = "push"
    /\ ~QueueFull(timer_op_queue)
    /\ LET op == InsertTimer(Unwrap(call[t].deadline), Unwrap(call[t].id),
                             Unwrap(call[t].waker))
       IN /\ timer_op_queue' = Append(timer_op_queue, op)
          /\ staged_ops' = staged_ops \cup {op}
          /\ insert_batch' = insert_batch \cup {<<op.id, Len(fired)>>}
    /\ call' = [call EXCEPT ![t].sub = "notify"]
    /\ UNCHANGED <<now, timer_id, timers, fired, applied_ops, retried_ops, id_owner,
                   timer,
                   held, results, created, wakeVars, exitVars, loopVars>>

\* insert_timer: self.notify(), then the id is returned.
InsertNotified(t) ==
    /\ call[t].pc \in InsertLabels
    /\ call[t].sub = "notify"
    /\ wake_pending' = NotifyValue(proxy, wake_pending)
    /\ call' = [call EXCEPT ![t] = IdleCall]
    /\ UNCHANGED <<now, wheelVars, created, proxy, exitVars, loopVars>>

\* insert_timer returns to poll_next, which stores the id with the waker
\* and returns.
InsertTimerNotify(t) ==
    /\ t \in Timers
    /\ InsertNotified(t)
    /\ timer' = [timer EXCEPT ![t].id_and_waker =
                    Some(<<Unwrap(call[t].id), Unwrap(call[t].waker)>>)]
    /\ results' = [results EXCEPT ![t] =
                    IF call[t].pc = "fire_insert"
                    THEN Append(@, Unwrap(call[t].result_time)) ELSE @]
    /\ UNCHANGED held

\* insert_timer returns to a direct caller, which keeps the key.
ApiInsertNotify(c) ==
    /\ c \in Callers
    /\ InsertNotified(c)
    /\ held' = [held EXCEPT ![c] =
                   @ \cup {<<Unwrap(call[c].deadline), Unwrap(call[c].id)>>}]
    /\ UNCHANGED <<timer, results>>

\* Reactor::process_timers, called by the native loop.  The wheel lock is
\* held from the drain to the split.
ProcessTimers ==
    LET r == process_timer_ops(timers, timer_op_queue)
        pending == SplitOff(r.timers, <<now + 1, 0>>)
        ready == r.timers \ pending
    IN /\ timers' = pending
       /\ timer_op_queue' = r.queue
       /\ applied_ops' = applied_ops \cup Range(r.taken)
       /\ fired' = IF ready = {} THEN fired ELSE Append(fired, IntoValues(ready))
       /\ UNCHANGED <<now, timer_id, staged_ops, retried_ops, insert_batch,
                      id_owner, timer, call, held, results, created, wakeVars,
                      exitVars, loopVars>>

(***************************************************************************)
(* Actions of the wake-up handle and of the exit state.                    *)
(***************************************************************************)
\* Reactor::set_proxy, called when the native loop starts.
SetProxy ==
    /\ proxy' = SetProxyValue(proxy, "proxy")
    /\ UNCHANGED <<wake_pending, exitVars, timerVars, loopVars>>

\* The native loop handles the wake-up it was sent.
LoopWake ==
    /\ wake_pending
    /\ wake_pending' = FALSE
    /\ UNCHANGED <<proxy, exitVars, timerVars, loopVars>>

\* request_exit, first half: the store of the encoded value.
RequestExitStore(r, code) ==
    /\ exit_pc[r] = "idle"
    /\ exit_code' = ExitValue(code)
    /\ last_request' = Some(code)
    /\ exit_pc' = [exit_pc EXCEPT ![r] = "notify"]
    /\ UNCHANGED <<observed, wakeVars, timerVars, loopVars>>

\* request_exit, second half: self.notify().
RequestExitNotify(r) ==
    /\ exit_pc[r] = "notify"
    /\ wake_pending' = NotifyValue(proxy, wake_pending)
    /\ exit_pc' = [exit_pc EXCEPT ![r] = "idle"]
    /\ UNCHANGED <<proxy, exit_code, last_request, observed, timerVars, loopVars>>

\* The native loop reads the exit state, as it does every iteration.
LoopObserveExit ==
    /\ observed' = exit_requested(exit_code)
    /\ UNCHANGED <<exit_code, exit_pc, last_request, wakeVars, timerVars, loopVars>>

(***************************************************************************)
(* The event-loop operation queue.                                         *)
(***************************************************************************)
EvlOpsCap == 2
MaxOpsPerTask == 2
Tasks == {"k1", "k2"}

\* The capacity the channel was created with (1024 in the program).
EvlOpsCapacity == EvlOpsCap

\* An operation, identified by the task that built it and by its rank among
\* that task's operations.
EventLoopOp(task, seq) == [task |-> task, seq |-> seq]

\* The operation task k is pushing, or will push next.
PendingOp(k) == EventLoopOp(k, pushed[k] + 1)

NeverFull(channel) == FALSE

\* Sender::send suspends while the bounded channel holds capacity messages.
ChannelFull(channel) == Len(channel) >= EvlOpsCapacity

SendFront(channel, op) == <<op>> \o channel

\* Sender::send, once there is room: the message goes to the back.
SendValue(channel, op) == Append(channel, op)

RecvSkipping(channel) ==
    IF channel = <<>>
    THEN [op |-> None, rest |-> channel]
    ELSE [op |-> Some(Head(channel)),
          rest |-> IF Len(channel) > 1 THEN Tail(Tail(channel)) ELSE <<>>]

\* Receiver::try_recv: the message at the front, if there is one.
try_recv(channel) ==
    IF channel = <<>>
    THEN [op |-> None, rest |-> channel]
    ELSE [op |-> Some(Head(channel)), rest |-> Tail(channel)]

\* EventLoopOp::run, as far as the queue is concerned: the operation is
\* executed on the native thread.  `first` records that it is the first one
\* of its drain_loop_queue call.
RunOp(log, op, first) == Append(log, [op |-> op, first |-> first])

InitOps ==
    /\ evl_ops = <<>>
    /\ push = [k \in Tasks |-> "idle"]
    /\ pushed = [k \in Tasks |-> 0]
    /\ drain = None
    /\ accepted = <<>>
    /\ ran = <<>>

\* A task calls push_event_loop_op(op) and reaches send(op).await.
PushBegin(k) ==
    /\ push[k] = "idle"
    /\ pushed[k] < MaxOpsPerTask
    /\ push' = [push EXCEPT ![k] = "send"]
    /\ UNCHANGED <<evl_ops, pushed, drain, accepted, ran, winVars, callVars, miscVars, wakeVars,
                   exitVars, timerVars>>

\* send(op).await completes: there is room and the operation is queued.
\* While the channel is full the task stays at the await.
PushSend(k) ==
    /\ push[k] = "send"
    /\ ~ChannelFull(evl_ops)
    /\ evl_ops' = SendValue(evl_ops, PendingOp(k))
    /\ accepted' = Append(accepted, PendingOp(k))
    /\ push' = [push EXCEPT ![k] = "notify"]
    /\ UNCHANGED <<pushed, drain, ran, winVars, callVars, miscVars, wakeVars, exitVars, timerVars>>

\* push_event_loop_op, after the await: self.notify().
PushNotify(k) ==
    /\ push[k] = "notify"
    /\ wake_pending' = NotifyValue(proxy, wake_pending)
    /\ push' = [push EXCEPT ![k] = "idle"]
    /\ pushed' = [pushed EXCEPT ![k] = @ + 1]
    /\ UNCHANGED <<evl_ops, drain, accepted, ran, winVars, callVars, miscVars, proxy, exitVars,
                   timerVars>>

DrainUntilEmpty(left, channel) == ~IsSome(try_recv(channel).op)

\* The loop of drain_loop_queue is over: the range 0..capacity() is
\* exhausted, or try_recv found the channel empty (break).
DrainDone(left, channel) == left = 0 \/ ~IsSome(try_recv(channel).op)

\* The native loop calls drain_loop_queue: for _ in 0..capacity().
DrainBegin ==
    /\ drain = None
    /\ drain' = Some(EvlOpsCapacity)
    /\ UNCHANGED <<evl_ops, push, pushed, accepted, ran, winVars, callVars, miscVars, wakeVars,
                   exitVars, timerVars>>

\* One iteration of the loop that finds an operation: op.run(elwt).
DrainRun ==
    /\ IsSome(drain)
    /\ ~DrainDone(Unwrap(drain), evl_ops)
    /\ LET r == try_recv(evl_ops)
       IN /\ IsSome(r.op)
          /\ evl_ops' = r.rest
          /\ ran' = RunOp(ran, Unwrap(r.op), Unwrap(drain) = EvlOpsCapacity)
    /\ drain' = Some(Unwrap(drain) - 1)
    /\ UNCHANGED <<push, pushed, accepted, winVars, callVars, miscVars, wakeVars, exitVars,
                   timerVars>>

\* The loop ends: the range is exhausted, or try_recv found nothing.
DrainEnd ==
    /\ IsSome(drain)
    /\ DrainDone(Unwrap(drain), evl_ops)
    /\ drain' = None
    /\ UNCHANGED <<evl_ops, push, pushed, accepted, ran, winVars, callVars, miscVars, wakeVars,
                   exitVars, timerVars>>

(***************************************************************************)
(* The window registry and event dispatch.                                 *)
(***************************************************************************)
MaxRegistrations == 2
MaxPosts == 3
WindowIds == {"win1", "win2"}

\* The WindowEvent variants Registration::signal has an arm for.
SignalledKinds ==
    {"RedrawRequested", "CloseRequested", "Resized", "Moved", "AxisMotion",
     "CursorEntered", "CursorLeft", "CursorMoved", "Destroyed", "Focused",
     "Ime", "KeyboardInput", "ModifiersChanged", "MouseInput", "MouseWheel",
     "Occluded", "ScaleFactorChanged", "SmartMagnify", "ThemeChanged",
     "Touch", "TouchpadMagnify", "TouchpadPressure", "TouchpadRotate"}

\* The WindowEvent variants that fall to the catch-all arm of signal.
UnmodelledKinds ==
    {"ActivationTokenDone", "DroppedFile", "HoveredFile", "HoveredFileCancelled"}
WindowEventKinds == SignalledKinds \cup UnmodelledKinds

\* The broadcasters a Registration owns: the fields of the struct.
RegistrationHandlers ==
    {"redraw_requested", "close_requested", "resized", "moved", "destroyed",
     "focused", "received_character", "keyboard_input", "modifiers_changed",
     "ime", "cursor_moved", "cursor_entered", "cursor_left", "mouse_wheel",
     "mouse_input", "touchpad_magnify", "smart_magnify", "touchpad_rotate",
     "touchpad_pressure", "axis_motion", "touch", "scale_factor_changed",
     "theme_changed", "occluded"}

\* Registration::signal: the broadcaster the event kind is delivered on, or
\* None for the kinds that fall to the catch-all arm.
SignalHandler(kind) ==
    CASE kind = "RedrawRequested" -> Some("redraw_requested")
      [] kind = "CloseRequested" -> Some("close_requested")
      [] kind = "Resized" -> Some("resized")
      [] kind = "Moved" -> Some("moved")
      [] kind = "AxisMotion" -> Some("axis_motion")
      [] kind = "CursorEntered" -> Some("cursor_entered")
      [] kind = "CursorLeft" -> Some("cursor_left")
      [] kind = "CursorMoved" -> Some("cursor_moved")
      [] kind = "Destroyed" -> Some("destroyed")
      [] kind = "Focused" -> Some("focused")
      [] kind = "Ime" -> Some("ime")
      [] kind = "KeyboardInput" -> Some("keyboard_input")
      [] kind = "ModifiersChanged" -> Some("modifiers_changed")
      [] kind = "MouseInput" -> Some("mouse_input")
      [] kind = "MouseWheel" -> Some("mouse_wheel")
      [] kind = "Occluded" -> Some("occluded")
      [] kind = "ScaleFactorChanged" -> Some("scale_factor_changed")
      [] kind = "SmartMagnify" -> Some("smart_magnify")
      [] kind = "ThemeChanged" -> Some("theme_changed")
      [] kind = "Touch" -> Some("touch")
      [] kind = "TouchpadMagnify" -> Some("touchpad_magnify")
      [] kind = "TouchpadPressure" -> Some("touchpad_pressure")
      [] kind = "TouchpadRotate" -> Some("touchpad_rotate")
      [] OTHER -> None

\* The events the native loop posts here: window events of a few kinds, one
\* of them without an arm in signal, and the events that carry no window.
PostedKinds == {"CloseRequested", "Resized", "KeyboardInput", "DroppedFile"}
WindowEvent(window_id, kind) ==
    [type |-> "WindowEvent", window_id |-> window_id, event |-> kind]
PlainEvent(type) == [type |-> type, window_id |-> "", event |-> ""]
PostedEvents ==
    {WindowEvent(id, kind) : id \in WindowIds, kind \in PostedKinds}
        \cup {PlainEvent(type) : type \in {"Resumed", "Suspended", "AboutToWait"}}

\* Reactor.evl_registration, the registration that is not in the registry.
evl_registration == 0

HashMapGetAny(map, id) ==
    IF map # {} THEN Some((CHOOSE e \in map : TRUE)[2]) ELSE None

\* HashMap over window ids, as a set of <<id, registration>> pairs.
HashMapGet(map, id) ==
    IF \E e \in map : e[1] = id
    THEN Some((CHOOSE e \in map : e[1] = id)[2])
    ELSE None

HashMapInsert(map, id, value) == {e \in map : e[1] # id} \cup {<<id, value>>}

HashMapKeep(map, id) == map

HashMapRemove(map, id) == {e \in map : e[1] # id}

InitWindows ==
    /\ windows = {}
    /\ next_registration = 1
    /\ post = None
    /\ posts = 0
    /\ last_post = None
    /\ signals = 0
    /\ last_signal = None
    /\ removed = {}
    /\ handles = {}

RcNewAgain(registration) == registration + 1

\* Rc::clone: one more handle to the same registration.
RcClone(registration) == registration

\* Reactor::insert_window: a fresh registration replaces what the id had,
\* and the caller gets a handle to it.
insert_window(id) ==
    /\ next_registration <= MaxRegistrations
    /\ LET registration == next_registration
       IN /\ windows' = HashMapInsert(windows, id, RcClone(registration))
          /\ handles' = HashMapInsert(handles, id, registration)
    /\ next_registration' = next_registration + 1
    /\ removed' = {e \in removed : e[1] # id}
    /\ UNCHANGED <<post, posts, last_post, signals, last_signal, opsVars, callVars, miscVars,
                   wakeVars, exitVars, timerVars>>

\* Reactor::remove_window.
remove_window(id) ==
    /\ windows' = HashMapRemove(windows, id)
    /\ removed' = {e \in removed : e[1] # id}
                    \cup {<<id, HashMapGet(windows, id)>>}
    /\ UNCHANGED <<next_registration, post, posts, last_post, signals,
                   last_signal, handles, opsVars, callVars, miscVars, wakeVars, exitVars, timerVars>>

\* The signal post_event goes on to await for an event, or None when the
\* event is dropped.
PostTarget(map, event) ==
    CASE event.type = "WindowEvent" ->
           LET registration == HashMapGet(map, event.window_id)
           IN IF IsSome(registration)
              THEN Some([registration |-> Unwrap(registration),
                         handler |-> SignalHandler(event.event)])
              ELSE None
      [] event.type = "Resumed" ->
           Some([registration |-> evl_registration, handler |-> Some("resumed")])
      [] event.type = "Suspended" ->
           Some([registration |-> evl_registration, handler |-> Some("suspended")])
      [] OTHER -> None

\* Reactor::post_event up to its await: the match and the registry lookup.
\* An event that selects nothing returns from post_event here.
PostEvent(event) ==
    /\ post = None
    /\ posts < MaxPosts
    /\ posts' = posts + 1
    /\ last_post' = Some(event)
    /\ post' = PostTarget(windows, event)
    /\ UNCHANGED <<windows, next_registration, signals, last_signal, removed,
                   handles,
                   opsVars, callVars, miscVars, wakeVars, exitVars, timerVars>>

\* The awaited signal: the broadcaster of the selected handler is run, and
\* post_event returns.
PostSignal ==
    /\ IsSome(post)
    /\ IF IsSome(Unwrap(post).handler)
       THEN /\ signals' = signals + 1
            /\ last_signal' = Some(<<Unwrap(post).registration,
                                     Unwrap(Unwrap(post).handler)>>)
       ELSE UNCHANGED <<signals, last_signal>>
    /\ post' = None
    /\ UNCHANGED <<windows, next_registration, posts, last_post, removed,
                   handles,
                   opsVars, callVars, miscVars, wakeVars, exitVars, timerVars>>

(***************************************************************************)
(* The timer calls as the caller sees them: each call of poll_next, drop,  *)
(* insert_timer and process_timers runs from its first line to its return. *)
(* The reactor fields the calls use are passed as one value R; R.pushed is *)
(* history, the operations the pushes of the call had accepted.            *)
(***************************************************************************)
ReactorValue ==
    [proxy |-> proxy, wake_pending |-> wake_pending, timer_id |-> timer_id,
     timer_op_queue |-> timer_op_queue, timers |-> timers, pushed |-> <<>>,
     panicked |-> FALSE]

\* The while-let loop of insert_timer and remove_timer: a push that fails
\* on a full queue applies the staged operations and is tried again.
PushOp(R, op) ==
    LET d == process_timer_ops(R.timers, R.timer_op_queue)
        R1 == IF QueueFull(R.timer_op_queue)
              THEN [R EXCEPT !.timers = d.timers, !.timer_op_queue = d.queue,
                             !.panicked = @ \/ d.panicked]
              ELSE R
    IN [R1 EXCEPT !.timer_op_queue = Append(@, op), !.pushed = Append(@, op)]

RemoveTimerNotifying(R, deadline, id) ==
    [PushOp(R, RemoveTimer(deadline, id)) EXCEPT
        !.wake_pending = NotifyValue(R.proxy, @)]

RemoveTimerSkipped(R, deadline, id) == R

\* Reactor::remove_timer
remove_timer(R, deadline, id) == PushOp(R, RemoveTimer(deadline, id))

\* Reactor::insert_timer: the reactor after the call, and the id returned.
insert_timer(R, deadline, waker) ==
    LET id == R.timer_id
        R1 == PushOp([R EXCEPT !.timer_id = id + 1],
                     InsertTimer(deadline, id, waker))
    IN [reactor |-> [R1 EXCEPT !.wake_pending = NotifyValue(R.proxy, @)],
        id |-> id]

ClearKeepsEntry(T, R) ==
    [timer |-> [T EXCEPT !.deadline = None, !.id_and_waker = None],
     reactor |-> R]

\* Timer::clear, which is all Drop does.
clear(T, R) ==
    LET T1 == [T EXCEPT !.deadline = None, !.id_and_waker = None]
    IN IF IsSome(T.deadline) /\ IsSome(T.id_and_waker)
       THEN [timer |-> T1,
             reactor |-> remove_timer(R, Unwrap(T.deadline),
                                      Unwrap(T.id_and_waker)[1])]
       ELSE [timer |-> T1, reactor |-> R]

\* Poll<Option<Instant>>
Pending == [ready |-> FALSE, item |-> None]
Ready(item) == [ready |-> TRUE, item |-> item]

PollNextFarDeadline(T, R, waker, instant_now) ==
    LET ins == insert_timer(R, InstantMAX, waker)
    IN [timer |-> [T EXCEPT !.id_and_waker = Some(<<ins.id, waker>>)],
        reactor |-> ins.reactor,
        poll |-> [ready |-> FALSE, item |-> None]]

\* Stream::poll_next for Timer: the Timer and the reactor after the call,
\* and the value returned.
poll_next(T, R, waker, instant_now) ==
    LET branch == PollBranch(T, waker, instant_now)
    IN CASE branch = "fire" ->
              LET d == Unwrap(T.deadline)
                  R1 == IF IsSome(T.id_and_waker)
                        THEN remove_timer(R, d, Unwrap(T.id_and_waker)[1])
                        ELSE R
                  next == checked_add(d, T.period)
                  result_time == ResultTime(d, next)
              IN IF IsSome(next)
                 THEN LET ins == insert_timer(R1, Unwrap(next), waker)
                      IN [timer |-> [T EXCEPT !.deadline = next,
                                              !.id_and_waker = Some(<<ins.id, waker>>)],
                          reactor |-> ins.reactor,
                          poll |-> Ready(Some(result_time))]
                 ELSE [timer |-> [T EXCEPT !.deadline = None,
                                           !.id_and_waker = None],
                       reactor |-> R1,
                       poll |-> Ready(Some(result_time))]
         [] branch = "register" ->
              LET ins == insert_timer(R, Unwrap(T.deadline), waker)
              IN [timer |-> [T EXCEPT !.id_and_waker = Some(<<ins.id, waker>>)],
                  reactor |-> ins.reactor,
                  poll |-> Pending]
         [] branch = "reregister" ->
              LET R1 == remove_timer(R, Unwrap(T.deadline),
                                     Unwrap(T.id_and_waker)[1])
                  ins == insert_timer(R1, Unwrap(T.deadline), waker)
              IN [timer |-> [T EXCEPT !.id_and_waker = Some(<<ins.id, waker>>)],
                  reactor |-> ins.reactor,
                  poll |-> Pending]
         [] OTHER -> [timer |-> T, reactor |-> R, poll |-> Pending]

SplitKeyAtNow(instant_now) == <<instant_now, 0>>

\* The key process_timers splits the wheel at: (now + 1ns, 0).
SplitKey(instant_now) == <<instant_now + 1, 0>>

NearestDeadline(ready, pending, instant_now) ==
    IF pending = {} THEN None ELSE Some(FirstEntry(pending).deadline)

\* The value process_timers returns (reactor.rs lines 217-222).
WaitDeadline(ready, pending, instant_now) ==
    IF ready = {}
    THEN IF pending = {} THEN None ELSE Some(FirstEntry(pending).deadline)
    ELSE Some(instant_now)

WakersOf(entries) == [i \in 1..Len(entries) |-> entries[i].waker]

SplitBeforeOps(R, wakers, instant_now) ==
    LET pending == SplitOff(R.timers, SplitKey(instant_now))
        ready == R.timers \ pending
        d == process_timer_ops(pending, R.timer_op_queue)
    IN [reactor |-> [R EXCEPT !.timers = d.timers, !.timer_op_queue = d.queue],
        wakers |-> wakers \o WakersOf(IntoValues(ready)),
        ready |-> IntoValues(ready),
        deadline |-> WaitDeadline(ready, d.timers, instant_now),
        taken |-> d.taken,
        wheel |-> R.timers,
        panicked |-> d.panicked]

\* Reactor::process_timers: the reactor after the call, the caller's
\* buffer after it, and the value returned; `ready`, `taken` and `wheel`
\* are history: the entries whose wakers the call appended, the staged
\* operations it applied and the wheel it found.
process_timers(R, wakers, instant_now) ==
    LET d == process_timer_ops(R.timers, R.timer_op_queue)
        pending == SplitOff(d.timers, SplitKey(instant_now))
        ready == d.timers \ pending
    IN [reactor |-> [R EXCEPT !.timers = pending, !.timer_op_queue = d.queue],
        wakers |-> wakers \o WakersOf(IntoValues(ready)),
        ready |-> IntoValues(ready),
        deadline |-> WaitDeadline(ready, pending, instant_now),
        taken |-> d.taken,
        wheel |-> R.timers,
        panicked |-> d.panicked]

\* The record kept of the latest call.
NoCall ==
    [fn |-> "", timer |-> "", waker |-> None, pushed |-> <<>>,
     poll |-> Pending, buffer |-> <<>>, wakers |-> <<>>, ready |-> <<>>,
     deadline |-> None, taken |-> <<>>, wheel |-> {},
     panicked |-> FALSE]

\* The buffers the native loop passes to process_timers.
Buffers == {<<>>, <<"w0">>}

InitCalls == last_call = NoCall

\* A task polls its Timer.
TimerPoll(t, waker) ==
    /\ timer[t].state = "live"
    /\ timer_id <= MaxTimerId
    /\ LET r == poll_next(timer[t], ReactorValue, waker, now)
       IN /\ timer' = [timer EXCEPT ![t] = r.timer]
          /\ timer_id' = r.reactor.timer_id
          /\ timer_op_queue' = r.reactor.timer_op_queue
          /\ timers' = r.reactor.timers
          /\ wake_pending' = r.reactor.wake_pending
          /\ results' = [results EXCEPT ![t] =
                IF r.poll.ready THEN Append(@, Unwrap(r.poll.item)) ELSE @]
          /\ last_call' = [NoCall EXCEPT !.fn = "poll_next", !.timer = t,
                                         !.waker = Some(waker),
                                         !.pushed = r.reactor.pushed,
                                         !.poll = r.poll]
    /\ UNCHANGED <<now, fired, staged_ops, applied_ops, retried_ops,
                   insert_batch, id_owner, call, held, created, proxy,
                   exitVars, opsVars, winVars, miscVars>>

\* A task drops its Timer.
TimerDrop(t) ==
    /\ timer[t].state = "live"
    /\ LET r == clear(timer[t], ReactorValue)
       IN /\ timer' = [timer EXCEPT ![t] = [r.timer EXCEPT !.state = "dropped"]]
          /\ timer_op_queue' = r.reactor.timer_op_queue
          /\ timers' = r.reactor.timers
          /\ last_call' = [NoCall EXCEPT !.fn = "drop", !.timer = t,
                                         !.pushed = r.reactor.pushed]
    /\ UNCHANGED <<now, timer_id, fired, staged_ops, applied_ops, retried_ops,
                   insert_batch, id_owner, call, held, results, created,
                   wakeVars, exitVars, opsVars, winVars, miscVars>>

\* Some other task registers a waker with Reactor::insert_timer.
InsertTimerCall(deadline, waker) ==
    /\ timer_id <= MaxApiInserts
    /\ LET r == insert_timer(ReactorValue, deadline, waker)
       IN /\ timer_id' = r.reactor.timer_id
          /\ timer_op_queue' = r.reactor.timer_op_queue
          /\ timers' = r.reactor.timers
          /\ wake_pending' = r.reactor.wake_pending
          /\ last_call' = [NoCall EXCEPT !.fn = "insert_timer",
                                         !.waker = Some(waker),
                                         !.pushed = r.reactor.pushed,
                                         !.panicked = r.reactor.panicked]
    /\ UNCHANGED <<now, fired, staged_ops, applied_ops, retried_ops,
                   insert_batch, id_owner, timer, call, held, results,
                   created, proxy, exitVars, opsVars, winVars, miscVars>>

\* Some other task deregisters a key insert_timer has handed out.
RemoveTimerCall(deadline, id) ==
    /\ id < timer_id
    /\ LET R == remove_timer(ReactorValue, deadline, id)
       IN /\ timer_op_queue' = R.timer_op_queue
          /\ timers' = R.timers
          /\ timer_id' = R.timer_id
          /\ wake_pending' = R.wake_pending
          /\ last_call' = [NoCall EXCEPT !.fn = "remove_timer",
                                         !.pushed = R.pushed,
                                         !.panicked = R.panicked]
    /\ UNCHANGED <<now, fired, staged_ops, applied_ops, retried_ops,
                   insert_batch, id_owner, timer, call, held, results,
                   created, proxy, exitVars, opsVars, winVars, miscVars>>

\* The native loop calls Reactor::process_timers(&mut wakers).
ProcessTimersCall(buffer) ==
    /\ LET r == process_timers(ReactorValue, buffer, now)
       IN /\ timer_op_queue' = r.reactor.timer_op_queue
          /\ timers' = r.reactor.timers
          /\ last_call' = [NoCall EXCEPT !.fn = "process_timers",
                                         !.buffer = buffer,
                                         !.wakers = r.wakers,
                                         !.ready = r.ready,
                                         !.deadline = r.deadline,
                                         !.taken = r.taken,
                                         !.wheel = r.wheel,
                                         !.panicked = r.panicked]
    /\ UNCHANGED <<now, timer_id, fired, staged_ops, applied_ops, retried_ops,
                   insert_batch, id_owner, timer, call, held, results,
                   created, wakeVars, exitVars, opsVars, winVars, miscVars>>

(***************************************************************************)
(* Reactor::new and the process-wide flag that guards it.                  *)
(***************************************************************************)
MaxNewCalls == 3
Constructors == {"n1", "n2", "n3"}

SwapLeavesFlag(flag, value) == [old |-> flag, new |-> flag]

\* AtomicBool::swap: one step that stores the value and gives the old one.
swap(flag, value) == [old |-> flag, new |-> value]

InitNew ==
    /\ already_exists = FALSE
    /\ new_pc = [n \in Constructors |-> [pc |-> "idle", calls |-> 0, panics |-> 0]]
    /\ reactors = {}

\* Reactor::new up to the test of the flag: the call panics when the flag
\* was already set, and goes on to build the Reactor otherwise.
NewSwap(n) ==
    /\ new_pc[n].pc = "idle"
    /\ new_pc[n].calls < MaxNewCalls
    /\ LET r == swap(already_exists, TRUE)
       IN /\ already_exists' = r.new
          /\ new_pc' = [new_pc EXCEPT ![n] =
                 IF r.old
                 THEN [@ EXCEPT !.calls = @ + 1, !.panics = @ + 1]
                 ELSE [@ EXCEPT !.calls = @ + 1, !.pc = "build"]]
    /\ UNCHANGED <<reactors, handlerVars, lockVars, runVars, ctorVars, opsVars, winVars, callVars, wakeVars,
                   exitVars, timerVars>>

\* Reactor::new builds the Reactor and returns it.
NewReturn(n) ==
    /\ new_pc[n].pc = "build"
    /\ reactors' = reactors \cup {<<n, new_pc[n].calls>>}
    /\ new_pc' = [new_pc EXCEPT ![n].pc = "idle"]
    /\ UNCHANGED <<already_exists, handlerVars, lockVars, runVars, ctorVars, opsVars, winVars, callVars,
                   wakeVars, exitVars, timerVars>>

(***************************************************************************)
(* Handler, the event broadcaster.  Its code (handler.rs) is not among the *)
(* sources; this part follows the behaviour the specification gives it:    *)
(* run_with hands one occurrence to every listener that was registered     *)
(* when it began, in registration order, and returns when all have had it. *)
(***************************************************************************)
MaxOccurrences == 2
Listeners == {"la", "lb", "lc"}
WaitModes == {"once", "repeatedly"}

ListenerIds(ls) == [i \in 1..Len(ls) |-> ls[i].id]

JoinsBroadcast(b, l) ==
    IF IsSome(b) THEN Some([Unwrap(b) EXCEPT !.left = Append(@, l)]) ELSE b

\* What a registration does to the broadcast in progress: nothing.
AfterRegister(b, l) == b

\* The listeners left after one of them was served: a "wait once"
\* listener is gone, a "wait repeatedly" listener stays.
AfterServed(ls, l) ==
    SelectSeq(ls, LAMBDA x : x.id # l \/ x.mode = "repeatedly")

InitHandler ==
    /\ listeners = <<>>
    /\ broadcast = None
    /\ delivered = [l \in Listeners |-> [n \in 1..MaxOccurrences |-> 0]]
    /\ snapshots = <<>>

\* A task starts to wait on the broadcaster.
ListenerRegister(l, mode) ==
    /\ l \notin Range(ListenerIds(listeners))
    /\ listeners' = Append(listeners, [id |-> l, mode |-> mode])
    /\ broadcast' = AfterRegister(broadcast, l)
    /\ UNCHANGED <<delivered, snapshots, newVars, lockVars, runVars, ctorVars, opsVars, winVars, callVars,
                   wakeVars, exitVars, timerVars>>

\* run_with begins: the occurrence is for the listeners registered now.
RunWithBegin ==
    /\ broadcast = None
    /\ Len(snapshots) < MaxOccurrences
    /\ broadcast' = Some([occurrence |-> Len(snapshots) + 1,
                          left |-> ListenerIds(listeners)])
    /\ snapshots' = Append(snapshots, Range(ListenerIds(listeners)))
    /\ UNCHANGED <<listeners, delivered, newVars, lockVars, runVars, ctorVars, opsVars, winVars, callVars,
                   wakeVars, exitVars, timerVars>>

\* run_with hands the occurrence to the next listener.
RunWithDeliver ==
    /\ IsSome(broadcast)
    /\ Unwrap(broadcast).left # <<>>
    /\ LET b == Unwrap(broadcast)
           l == Head(b.left)
       IN /\ delivered' = [delivered EXCEPT ![l][b.occurrence] = @ + 1]
          /\ listeners' = AfterServed(listeners, l)
          /\ broadcast' = Some([b EXCEPT !.left = Tail(@)])
    /\ UNCHANGED <<snapshots, newVars, lockVars, runVars, ctorVars, opsVars, winVars, callVars, wakeVars,
                   exitVars, timerVars>>

\* run_with returns: every listener has had the occurrence.
RunWithEnd ==
    /\ IsSome(broadcast)
    /\ Unwrap(broadcast).left = <<>>
    /\ broadcast' = None
    /\ UNCHANGED <<listeners, delivered, snapshots, newVars, lockVars, runVars, ctorVars, opsVars, winVars,
                   callVars, wakeVars, exitVars, timerVars>>

(***************************************************************************)
(* The two Mutexes of the Reactor, windows and timers, and where each      *)
(* call takes and drops their guards.  A thread is in one reactor call at  *)
(* a time; lk[k].pc is its position: "locked" with a guard in hand,        *)
(* "await" and "await_send" suspended at an .await, "push" in the push     *)
(* loop, "extend" after drop(timers).                                      *)
(***************************************************************************)
LockThreads == {"h1", "h2"}
Mutexes == {"windows", "timers"}
\* The events posted here, and the deadlines inserted.
LockWindows == {"win1"}
LockEvents ==
    {WindowEvent(id, "CloseRequested") : id \in LockWindows}
        \cup {PlainEvent("Resumed")}
LockDeadlines == {0}
MaxLockInserts == 1

IdleLk == [fn |-> "", pc |-> "idle", arg |-> None]

\* The positions at which a call is suspended at an .await.
SuspensionPoints == {"await", "await_send"}

\* The guards thread k holds.
Guards(k) == {m \in Mutexes : locks[m] = Some(k)}

\* Mutex::lock, once the mutex is free, and the drop of the guard.
Lock(l, m, k) == [l EXCEPT ![m] = Some(k)]
DropGuard(l, m) == [l EXCEPT ![m] = None]

GuardOutlivesBlock(l) == l

\* The end of the block of post_event that holds the registry guard: the
\* guard is dropped there, before the signal is awaited.
BlockEnd(l) == DropGuard(l, "windows")

InitLocks ==
    /\ locks = [m \in Mutexes |-> None]
    /\ lk = [k \in LockThreads |-> IdleLk]

\* What no step of these calls touches.
LockFrame ==
    UNCHANGED <<proxy, exitVars, callVars, newVars, handlerVars, runVars, ctorVars, now,
                fired,
                staged_ops, applied_ops, retried_ops, insert_batch, id_owner,
                timer, call, held, results, created, push, pushed, drain,
                accepted, ran, post, posts, last_post, signals, last_signal,
                removed, handles>>

\* post_event, a window event: self.windows.lock().
PostEventLock(k, event) ==
    /\ lk[k].pc = "idle"
    /\ event.type = "WindowEvent"
    /\ locks["windows"] = None
    /\ locks' = Lock(locks, "windows", k)
    /\ lk' = [lk EXCEPT ![k] = [fn |-> "post_event", pc |-> "locked",
                                arg |-> Some(event)]]
    /\ LockFrame
    /\ UNCHANGED <<windows, next_registration, timer_id, timer_op_queue,
                   timers, evl_ops, wake_pending>>

\* post_event: windows.get(&window_id).cloned(), the end of the block,
\* then either the await of signal or, with no registration, the return.
PostEventGet(k) ==
    /\ lk[k].fn = "post_event"
    /\ lk[k].pc = "locked"
    /\ LET target == PostTarget(windows, Unwrap(lk[k].arg))
       IN lk' = [lk EXCEPT ![k] =
                    IF IsSome(target)
                    THEN [fn |-> "post_event", pc |-> "await", arg |-> target]
                    ELSE IdleLk]
    /\ locks' = BlockEnd(locks)
    /\ LockFrame
    /\ UNCHANGED <<windows, next_registration, timer_id, timer_op_queue,
                   timers, evl_ops, wake_pending>>

\* post_event, Resumed or Suspended: run_with is awaited, no lock taken.
PostEventGlobal(k, event) ==
    /\ lk[k].pc = "idle"
    /\ event.type \in {"Resumed", "Suspended"}
    /\ lk' = [lk EXCEPT ![k] = [fn |-> "post_event", pc |-> "await",
                                arg |-> PostTarget(windows, event)]]
    /\ LockFrame
    /\ UNCHANGED <<locks, windows, next_registration, timer_id,
                   timer_op_queue, timers, evl_ops, wake_pending>>

\* post_event: the awaited broadcast is over and post_event returns.
PostEventResume(k) ==
    /\ lk[k].fn = "post_event"
    /\ lk[k].pc = "await"
    /\ lk' = [lk EXCEPT ![k] = IdleLk]
    /\ LockFrame
    /\ UNCHANGED <<locks, windows, next_registration, timer_id,
                   timer_op_queue, timers, evl_ops, wake_pending>>

\* insert_window and remove_window: self.windows.lock().
WindowLock(k, fn, id) ==
    /\ lk[k].pc = "idle"
    /\ fn = "insert_window" => next_registration <= MaxRegistrations
    /\ locks["windows"] = None
    /\ locks' = Lock(locks, "windows", k)
    /\ lk' = [lk EXCEPT ![k] = [fn |-> fn, pc |-> "locked", arg |-> Some(id)]]
    /\ LockFrame
    /\ UNCHANGED <<windows, next_registration, timer_id, timer_op_queue,
                   timers, evl_ops, wake_pending>>

\* insert_window and remove_window: the map is changed and the call
\* returns, dropping the guard.
WindowDone(k) ==
    /\ lk[k].fn \in {"insert_window", "remove_window"}
    /\ lk[k].pc = "locked"
    /\ IF lk[k].fn = "insert_window"
       THEN /\ windows' = HashMapInsert(windows, Unwrap(lk[k].arg),
                                        next_registration)
            /\ next_registration' = next_registration + 1
       ELSE /\ windows' = HashMapRemove(windows, Unwrap(lk[k].arg))
            /\ UNCHANGED next_registration
    /\ locks' = DropGuard(locks, "windows")
    /\ lk' = [lk EXCEPT ![k] = IdleLk]
    /\ LockFrame
    /\ UNCHANGED <<timer_id, timer_op_queue, timers, evl_ops, wake_pending>>

\* insert_timer: the id is taken and the operation built.
InsertTimerEnter(k, deadline) ==
    /\ lk[k].pc = "idle"
    /\ timer_id <= MaxLockInserts
    /\ timer_id' = timer_id + 1
    /\ lk' = [lk EXCEPT ![k] =
                 [fn |-> "insert_timer", pc |-> "push",
                  arg |-> Some(InsertTimer(deadline, timer_id, CallerWaker("c1")))]]
    /\ LockFrame
    /\ UNCHANGED <<locks, windows, next_registration, timer_op_queue, timers,
                   evl_ops, wake_pending>>

\* remove_timer: the operation is built.
RemoveTimerEnter(k, deadline, id) ==
    /\ lk[k].pc = "idle"
    /\ id < timer_id
    /\ lk' = [lk EXCEPT ![k] = [fn |-> "remove_timer", pc |-> "push",
                                arg |-> Some(RemoveTimer(deadline, id))]]
    /\ LockFrame
    /\ UNCHANGED <<locks, windows, next_registration, timer_id,
                   timer_op_queue, timers, evl_ops, wake_pending>>

\* insert_timer and remove_timer: the push is accepted; insert_timer
\* notifies; the call returns.
TimerPushAccepted(k) ==
    /\ lk[k].pc = "push"
    /\ ~QueueFull(timer_op_queue)
    /\ timer_op_queue' = Append(timer_op_queue, Unwrap(lk[k].arg))
    /\ wake_pending' = IF lk[k].fn = "insert_timer"
                       THEN NotifyValue(proxy, wake_pending)
                       ELSE wake_pending
    /\ lk' = [lk EXCEPT ![k] = IdleLk]
    /\ LockFrame
    /\ UNCHANGED <<locks, windows, next_registration, timer_id, timers,
                   evl_ops>>

\* insert_timer and remove_timer: the push failed; self.timers.lock().
TimerPushFailed(k) ==
    /\ lk[k].pc = "push"
    /\ QueueFull(timer_op_queue)
    /\ locks["timers"] = None
    /\ locks' = Lock(locks, "timers", k)
    /\ lk' = [lk EXCEPT ![k].pc = "locked"]
    /\ LockFrame
    /\ UNCHANGED <<windows, next_registration, timer_id, timer_op_queue,
                   timers, evl_ops, wake_pending>>

\* insert_timer and remove_timer: process_timer_ops under the guard, which
\* is dropped at the end of the loop body; the push is tried again.
TimerDrained(k) ==
    /\ lk[k].fn \in {"insert_timer", "remove_timer"}
    /\ lk[k].pc = "locked"
    /\ LET d == process_timer_ops(timers, timer_op_queue)
       IN /\ timers' = d.timers
          /\ timer_op_queue' = d.queue
    /\ locks' = DropGuard(locks, "timers")
    /\ lk' = [lk EXCEPT ![k].pc = "push"]
    /\ LockFrame
    /\ UNCHANGED <<windows, next_registration, timer_id, evl_ops,
                   wake_pending>>

\* process_timers: self.timers.lock().
ProcessTimersLock(k) ==
    /\ lk[k].pc = "idle"
    /\ locks["timers"] = None
    /\ locks' = Lock(locks, "timers", k)
    /\ lk' = [lk EXCEPT ![k] = [fn |-> "process_timers", pc |-> "locked",
                                arg |-> None]]
    /\ LockFrame
    /\ UNCHANGED <<windows, next_registration, timer_id, timer_op_queue,
                   timers, evl_ops, wake_pending>>

\* process_timers: the staged operations, the split and drop(timers).
ProcessTimersSplit(k) ==
    /\ lk[k].fn = "process_timers"
    /\ lk[k].pc = "locked"
    /\ LET r == process_timers(ReactorValue, <<>>, now)
       IN /\ timers' = r.reactor.timers
          /\ timer_op_queue' = r.reactor.timer_op_queue
          /\ lk' = [lk EXCEPT ![k].pc = "extend", ![k].arg = Some(r.wakers)]
    /\ locks' = DropGuard(locks, "timers")
    /\ LockFrame
    /\ UNCHANGED <<windows, next_registration, timer_id, evl_ops,
                   wake_pending>>

\* process_timers: wakers.extend(..) and the return.
ProcessTimersReturn(k) ==
    /\ lk[k].fn = "process_timers"
    /\ lk[k].pc = "extend"
    /\ lk' = [lk EXCEPT ![k] = IdleLk]
    /\ LockFrame
    /\ UNCHANGED <<locks, windows, next_registration, timer_id,
                   timer_op_queue, timers, evl_ops, wake_pending>>

\* push_event_loop_op: the send is awaited.
PushOpAwait(k) ==
    /\ lk[k].pc = "idle"
    /\ lk' = [lk EXCEPT ![k] = [fn |-> "push_event_loop_op",
                                pc |-> "await_send",
                                arg |-> Some(EventLoopOp("k1", 1))]]
    /\ LockFrame
    /\ UNCHANGED <<locks, windows, next_registration, timer_id,
                   timer_op_queue, timers, evl_ops, wake_pending>>

\* push_event_loop_op: the channel takes the operation, the loop is
\* notified and the call returns.
PushOpSent(k) ==
    /\ lk[k].pc = "await_send"
    /\ ~ChannelFull(evl_ops)
    /\ evl_ops' = SendValue(evl_ops, Unwrap(lk[k].arg))
    /\ wake_pending' = NotifyValue(proxy, wake_pending)
    /\ lk' = [lk EXCEPT ![k] = IdleLk]
    /\ LockFrame
    /\ UNCHANGED <<locks, windows, next_registration, timer_id,
                   timer_op_queue, timers>>

(***************************************************************************)
(* EventLoopOp::run: one arm per variant.  Each arm makes its call on the  *)
(* native window or loop target and sends on the request's completion      *)
(* channel (`waker`).  Complete::send is not among the sources; here it    *)
(* delivers its argument on the channel.                                   *)
(***************************************************************************)
MaxRequests == 2

\* The arms of the form  window.set_x(..); waker.send(())
SetterOps ==
    {"SetOuterPosition", "SetMinInnerSize", "SetMaxInnerSize",
     "SetResizeIncrements", "SetTitle", "SetWindowIcon", "SetFullscreen",
     "SetMaximized", "SetMinimized", "SetVisible", "SetDecorated",
     "SetWindowLevel", "SetImeCursorArea", "SetImeAllowed", "SetImePurpose",
     "FocusWindow", "RequestUserAttention", "SetTheme", "SetProtectedContent",
     "SetCursorIcon", "SetCursorVisible", "SetTransparent", "SetResizable"}
\* The arms of the form  waker.send(native call)  whose call returns a
\* Result, and those among them that change the window or create one.
FallibleOps ==
    {"BuildWindow", "InnerPosition", "OuterPosition", "SetCursorGrab",
     "DragWindow", "DragResizeWindow", "SetCursorHitTest", "SetCursorPosition"}
FallibleMutatingOps == FallibleOps \ {"InnerPosition", "OuterPosition"}
\* The arms of the form  waker.send(native call)  that cannot fail.
QueryOps ==
    {"PrimaryMonitor", "AvailableMonitors", "InnerSize", "OuterSize",
     "ResizeIncrements", "Fullscreen", "Maximized", "Minimized", "Visible",
     "Decorated", "Focused", "Theme", "Title", "CurrentMonitor", "Resizable"}
OpVariants == SetterOps \cup FallibleOps \cup QueryOps

Unit == "()"
\* What the native call of a variant may return.
NativeResults(variant) ==
    IF variant \in SetterOps THEN {Unit}
    ELSE IF variant \in FallibleOps THEN {"Ok", "Err"}
    ELSE {"v1", "v2"}

NativeCall(variant, result) ==
    [ev |-> "native", variant |-> variant, result |-> result]
\* Complete::send(value)
CompleteSend(value) == [ev |-> "send", value |-> value]

RunDropsError(variant, result) ==
    IF result = "Err"
    THEN <<NativeCall(variant, result)>>
    ELSE <<NativeCall(variant, result), CompleteSend(result)>>

\* EventLoopOp::run(self, target), as the sequence of what it does.
run(variant, result) ==
    IF variant \in SetterOps
    THEN <<NativeCall(variant, result), CompleteSend(Unit)>>
    ELSE <<NativeCall(variant, result), CompleteSend(result)>>

InitRun == run_trace = <<>>

\* drain_loop_queue runs a request: op.run(elwt).
RunRequest(variant, result) ==
    /\ Len(run_trace) < MaxRequests
    /\ run_trace' = Append(run_trace, [variant |-> variant, result |-> result,
                                       steps |-> run(variant, result)])
    /\ UNCHANGED <<wakeVars, exitVars, timerVars, opsVars, winVars, callVars,
                   newVars, handlerVars, lockVars, ctorVars>>

(***************************************************************************)
(* Timer::after and Timer::interval, with the call that made each Timer    *)
(* kept beside it.                                                         *)
(***************************************************************************)
InitCtor == built = [t \in Timers |-> None]

\* A task calls Timer::after(duration) or Timer::interval(period).
ConstructTimer(t, ctor, duration) ==
    /\ timer[t].state = "unborn"
    /\ LET c == IF ctor = "after" THEN after(duration, now)
                ELSE interval(duration, now)
       IN /\ timer' = [timer EXCEPT ![t] =
                 [state |-> "live", id_and_waker |-> c.id_and_waker,
                  deadline |-> c.deadline, period |-> c.period]]
          /\ created' = [created EXCEPT ![t] = c]
    /\ built' = [built EXCEPT ![t] =
                    Some([ctor |-> ctor, duration |-> duration, at |-> now])]
    /\ UNCHANGED <<now, wheelVars, call, held, results, wakeVars, exitVars,
                   opsVars, winVars, callVars, newVars, handlerVars, lockVars,
                   runVars>>

(***************************************************************************)
(* Specifications.                                                         *)
(***************************************************************************)
Init ==
    /\ InitWake /\ InitExit /\ InitTimers /\ InitOps /\ InitWindows
    /\ InitCalls /\ InitNew /\ InitHandler /\ InitLocks /\ InitRun /\ InitCtor

\* The exit state and the wake-up handle.
NextExit ==
    \/ SetProxy
    \/ LoopWake
    \/ \E r \in Requesters, code \in ExitCodes : RequestExitStore(r, code)
    \/ \E r \in Requesters : RequestExitNotify(r)
    \/ LoopObserveExit

SpecExit == Init /\ [][NextExit]_vars

\* One Timer, polled and dropped by its task while the native loop runs
\* process_timers.
NextTimer ==
    \/ SetProxy
    \/ LoopWake
    \/ Tick
    \/ \E t \in Timers : NewTimer(t)
    \/ \E t \in Timers, w \in Wakers : PollBegin(t, w)
    \/ \E t \in Timers : DropBegin(t)
    \/ \E t \in Timers : DrainOnFull(t)
    \/ \E t \in Timers : RemoveTimerPush(t)
    \/ \E t \in Timers : InsertTimerId(t)
    \/ \E t \in Timers : InsertTimerPush(t)
    \/ \E t \in Timers : InsertTimerNotify(t)
    \/ ProcessTimers

SpecTimer == Init /\ [][NextTimer]_vars

\* The wheel under threads that call insert_timer and remove_timer at the
\* same time as each other and as the native loop.
NextWheel ==
    \/ Tick
    \/ \E c \in Callers, d \in ApiDeadlines : ApiInsertBegin(c, d, CallerWaker(c))
    \/ \E c \in Callers : \E key \in held[c] : ApiRemoveBegin(c, key)
    \/ \E c \in Callers : DrainOnFull(c)
    \/ \E c \in Callers : ApiRemovePush(c)
    \/ \E c \in Callers : InsertTimerId(c)
    \/ \E c \in Callers : InsertTimerPush(c)
    \/ \E c \in Callers : ApiInsertNotify(c)
    \/ ProcessTimers

SpecWheel == Init /\ [][NextWheel]_vars

\* Tasks that push operations while the native loop drains them.
NextOps ==
    \/ SetProxy
    \/ LoopWake
    \/ \E k \in Tasks : PushBegin(k)
    \/ \E k \in Tasks : PushSend(k)
    \/ \E k \in Tasks : PushNotify(k)
    \/ DrainBegin
    \/ DrainRun
    \/ DrainEnd

SpecOps == Init /\ [][NextOps]_vars

\* The same, with a native loop that keeps iterating: a drain_loop_queue
\* call that can start does start, and one that has started runs to its end.
FairSpecOps ==
    /\ Init
    /\ [][NextOps]_vars
    /\ WF_vars(DrainBegin)
    /\ WF_vars(DrainRun)
    /\ WF_vars(DrainEnd)

\* Windows that come and go while the native loop posts events.
NextWindows ==
    \/ \E id \in WindowIds : insert_window(id)
    \/ \E id \in WindowIds : remove_window(id)
    \/ \E event \in PostedEvents : PostEvent(event)
    \/ PostSignal

SpecWindows == Init /\ [][NextWindows]_vars

\* Bursts of staged operations at one instant, with the scheduling the
\* program relies on: every thread that is inside a reactor call goes on
\* running, and the native loop goes on iterating.
CallerStep(c) ==
    \/ DrainOnFull(c)
    \/ ApiRemovePush(c)
    \/ InsertTimerId(c)
    \/ InsertTimerPush(c)
    \/ ApiInsertNotify(c)

NextBurst ==
    \/ \E c \in Callers, d \in ApiDeadlines : ApiInsertBegin(c, d, CallerWaker(c))
    \/ \E c \in Callers : \E key \in held[c] : ApiRemoveBegin(c, key)
    \/ \E c \in Callers : DrainOnFull(c)
    \/ \E c \in Callers : ApiRemovePush(c)
    \/ \E c \in Callers : InsertTimerId(c)
    \/ \E c \in Callers : InsertTimerPush(c)
    \/ \E c \in Callers : ApiInsertNotify(c)
    \/ ProcessTimers

FairSpecBurst ==
    /\ Init
    /\ [][NextBurst]_vars
    /\ \A c \in Callers : WF_vars(CallerStep(c))
    /\ WF_vars(ProcessTimers)

(***************************************************************************)
(* Properties.                                                             *)
(***************************************************************************)
RECURSIVE Flatten(_)
\* The batches of `fired` as one sequence, in the order of output.
Flatten(batches) ==
    IF batches = <<>> THEN <<>> ELSE Head(batches) \o Flatten(Tail(batches))

\* The ids of the entries process_timers has output so far.
FiredIds(batches) == {e.id : e \in Range(Flatten(batches))}

\* A sequence of entries in non-decreasing order of (deadline, id).
InKeyOrder(entries) ==
    \A i, j \in 1..Len(entries) :
        i < j => ~KeyLess(Key(entries[j]), Key(entries[i]))

\* The wheel entries whose id thread t allocated.
EntriesOf(t) == {e \in timers : <<e.id, t>> \in id_owner}

\* C1: exit_requested() returns exactly the code of the most recent
\* request_exit, for every i32 code, and nothing before the first request.
ExitCodeRoundTrip == exit_requested(exit_code) = last_request

\* C1 witness: a request with code 42 was observed by the loop and a later
\* request with a negative code has overwritten it.
ExitOverwritten ==
    /\ observed = Some(42)
    /\ last_request = Some(-2147483647 - 1)
    /\ exit_requested(exit_code) = Some(-2147483647 - 1)

\* C2: once the drop of a Timer has returned, no process_timers call
\* outputs an entry of that Timer.
DroppedNeverFires ==
    [][\A t \in Timers :
          timer[t].state = "dropped" =>
              \A id \in FiredIds(fired') \ FiredIds(fired) : <<id, t>> \notin id_owner]_vars

\* C2 witness: a Timer that no poll ever fired was dropped while registered,
\* its deadline has passed, process_timers has applied the Remove of the
\* drop, and the entry was never output.
DroppedAndDue ==
    \E t \in Timers :
        /\ timer[t].state = "dropped"
        /\ results[t] = <<>>
        /\ timer_op_queue = <<>>
        /\ \E rm \in applied_ops, ins \in applied_ops :
              /\ rm.op = "RemoveTimer" /\ ins.op = "InsertTimer"
              /\ rm.id = timer_id - 1 /\ ins.id = rm.id
              /\ <<rm.id, t>> \in id_owner
              /\ rm.deadline <= now
              /\ rm.id \notin FiredIds(fired)

\* C3 as claimed: over all calls, the entries are output in non-decreasing
\* order of deadline and, for equal deadlines, of id.
FiringOrderAcrossCalls == InKeyOrder(Flatten(fired))

\* C3 amended: each process_timers call outputs its entries in
\* non-decreasing order of (deadline, id), and an entry output by a later
\* call has a later deadline than every entry output by an earlier call
\* that ran when its Insert was already staged.
FiringOrderPerCall ==
    /\ \A b \in 1..Len(fired) : InKeyOrder(fired[b])
    /\ \A b1, b2 \in 1..Len(fired) :
          b1 < b2 =>
            \A e1 \in Range(fired[b1]), e2 \in Range(fired[b2]) :
                (\E k \in 0..(b1 - 1) : <<e2.id, k>> \in insert_batch)
                    => e1.deadline < e2.deadline

\* C3 witness: one call has output two entries of equal deadline, the one
\* inserted first (the smaller id) first.
TieBrokenById ==
    \E b \in 1..Len(fired) :
        /\ Len(fired[b]) = 2
        /\ fired[b][1].deadline = fired[b][2].deadline
        /\ fired[b][1].id < fired[b][2].id

\* The entries the applied operations leave in the wheel: those inserted,
\* not removed and not yet output.
ExpectedWheel ==
    {Entry(op.deadline, op.id, op.waker) :
        op \in {o \in applied_ops :
                   /\ o.op = "InsertTimer"
                   /\ RemoveTimer(o.deadline, o.id) \notin applied_ops
                   /\ o.id \notin FiredIds(fired)}}

\* No staged operation is lost or applied twice: every operation a push
\* has accepted is either still in the queue or applied, never both, the
\* queue holds no operation twice and never more than its capacity, and
\* the wheel holds exactly what the applied operations leave in it.
NoOpLost ==
    /\ staged_ops = applied_ops \cup Range(timer_op_queue)
    /\ applied_ops \cap Range(timer_op_queue) = {}
    /\ Cardinality(Range(timer_op_queue)) = Len(timer_op_queue)
    /\ Len(timer_op_queue) <= QueueCapacity
    /\ timers = ExpectedWheel

\* C4: no staged Insert or Remove is ever lost, every insert_timer and
\* remove_timer call returns, and every staged operation is applied to the
\* wheel in the end, also when a push finds the queue full.
DrainAndRetry ==
    /\ []NoOpLost
    /\ \A c \in Callers : (call[c].pc # "idle") ~> (call[c].pc = "idle")
    /\ []<>(timer_op_queue = <<>> /\ applied_ops = staged_ops)

\* C4 witness: more operations than the queue holds were staged, two of
\* them by pushes that found the queue full and retried, and all of them
\* are applied.
BurstApplied ==
    /\ Cardinality(staged_ops) > QueueCapacity
    /\ applied_ops = staged_ops
    /\ retried_ops # {}
    /\ retried_ops \subseteq applied_ops

\* C7: a Timer never has two wheel entries, and an idle registered Timer
\* whose staged operations are all applied has exactly one, under the key
\* and with the waker it holds, until process_timers outputs it.
OneEntryPerTimer ==
    \A t \in Timers :
        /\ Cardinality(EntriesOf(t)) <= 1
        /\ ( /\ timer[t].state = "live"
             /\ call[t].pc = "idle"
             /\ IsSome(timer[t].id_and_waker)
             /\ \A i \in 1..Len(timer_op_queue) :
                    <<timer_op_queue[i].id, t>> \notin id_owner
             /\ Unwrap(timer[t].id_and_waker)[1] \notin FiredIds(fired) )
            => EntriesOf(t) = {Entry(Unwrap(timer[t].deadline),
                                     Unwrap(timer[t].id_and_waker)[1],
                                     Unwrap(timer[t].id_and_waker)[2])}

\* C7 witness: a not-yet-due Timer was polled again with another waker and
\* the Remove of its stale entry and the Insert of the new one are applied.
Reregistered ==
    \E t \in Timers :
        /\ timer[t].state = "live"
        /\ call[t].pc = "idle"
        /\ timer_op_queue = <<>>
        /\ IsSome(timer[t].id_and_waker)
        /\ IsSome(timer[t].deadline)
        /\ results[t] = <<>>
        /\ LET d == Unwrap(timer[t].deadline)
               id == Unwrap(timer[t].id_and_waker)[1]
               w == Unwrap(timer[t].id_and_waker)[2]
           IN /\ timers = {Entry(d, id, w)}
              /\ \E old \in applied_ops :
                    /\ old.op = "InsertTimer"
                    /\ old.deadline = d /\ old.id # id /\ old.waker # w
                    /\ <<old.id, t>> \in id_owner
                    /\ RemoveTimer(d, old.id) \in applied_ops

\* C8: the instants the polls of a Timer have returned are start,
\* start + period, start + 2 * period, ... with none skipped or repeated;
\* between polls the deadline is the next instant of that sequence, or is
\* cleared once the addition has overflowed, and then no further instant
\* is produced.
IntervalSequence ==
    \A t \in Timers :
        timer[t].state # "unborn" =>
            LET c == created[t]
                n == Len(results[t])
            IN IF ~IsSome(c.deadline) THEN n = 0
               ELSE LET start == Unwrap(c.deadline)
                    IN /\ \A i \in 1..n : results[t][i] = start + (i - 1) * c.period
                       /\ (timer[t].state = "live" /\ call[t].pc = "idle") =>
                            IF IsSome(timer[t].deadline)
                            THEN Unwrap(timer[t].deadline) = start + n * c.period
                            ELSE n >= 1 /\ start + n * c.period > InstantMAX

\* C8 witness: an interval Timer has produced two instants and its next
\* deadline overflowed.
IntervalOverflowed ==
    \E t \in Timers :
        /\ timer[t].state = "live"
        /\ call[t].pc = "idle"
        /\ created[t].period < DurationMAX
        /\ Len(results[t]) = 2
        /\ ~IsSome(timer[t].deadline)

(***************************************************************************)
(* Properties of the operation queue.                                      *)
(***************************************************************************)
RanOps == [i \in 1..Len(ran) |-> ran[i].op]

\* Every accepted operation is either still queued or has been run, in the
\* order of acceptance, and no operation has been run twice.
OpsAccounted ==
    /\ accepted = RanOps \o evl_ops
    /\ \A i, j \in 1..Len(ran) : i # j => RanOps[i] # RanOps[j]

\* C5: with a native loop that keeps iterating, every operation that
\* push_event_loop_op has had accepted is eventually run by
\* drain_loop_queue, and at every moment each accepted operation is either
\* still queued or has been run exactly once: none is run twice, none is
\* discarded.
RunExactlyOnce ==
    /\ []OpsAccounted
    /\ \A k \in Tasks, n \in 1..MaxOpsPerTask :
           (EventLoopOp(k, n) \in Range(accepted))
               ~> (Cardinality({i \in 1..Len(ran) : RanOps[i] = EventLoopOp(k, n)}) = 1)

\* C5 witness: more operations than the queue holds, from both tasks, have
\* been accepted and all of them have been run.
AllOpsRan ==
    /\ Len(ran) > EvlOpsCapacity
    /\ RanOps = accepted
    /\ \A k \in Tasks : \E i \in 1..Len(ran) : RanOps[i].task = k

\* C6: the operations of one task are run in the order that task pushed
\* them, whatever the other tasks push meanwhile and whichever
\* drain_loop_queue calls run them.
TaskOrderKept ==
    \A i, j \in 1..Len(ran) :
        (i < j /\ RanOps[i].task = RanOps[j].task) => RanOps[i].seq < RanOps[j].seq

\* C6 witness: two operations of one task were run in different
\* drain_loop_queue calls, with an operation of another task run between
\* them.
InterleavedAcrossDrains ==
    \E i, j, k \in 1..Len(ran) :
        /\ i < j /\ j < k
        /\ RanOps[i].task = RanOps[k].task
        /\ RanOps[j].task # RanOps[i].task
        /\ RanOps[i].seq < RanOps[k].seq
        /\ ran[k].first

\* The queue is within its capacity; a suspended push has not had its
\* operation accepted, and a push that is about to notify has.
BackpressureState ==
    /\ Len(evl_ops) <= EvlOpsCapacity
    /\ \A k \in Tasks :
           /\ push[k] = "send" => PendingOp(k) \notin Range(accepted)
           /\ push[k] = "notify" => PendingOp(k) \in Range(accepted)

\* A suspended push stays suspended while the queue is full, and leaves the
\* suspension only with its operation in the queue.
BackpressureStep ==
    \A k \in Tasks :
        push[k] = "send" =>
            \/ push'[k] = "send"
            \/ /\ Len(evl_ops) < EvlOpsCapacity
               /\ push'[k] = "notify"
               /\ Len(evl_ops') = Len(evl_ops) + 1
               /\ evl_ops'[Len(evl_ops')] = PendingOp(k)

\* The native loop is woken only by a push whose operation was accepted.
WakeAfterAccept ==
    (wake_pending' /\ ~wake_pending) =>
        \E k \in Tasks :
            /\ push[k] = "notify"
            /\ push'[k] = "idle"
            /\ PendingOp(k) \in Range(accepted)

\* C10: push_event_loop_op applies backpressure: the queue never holds
\* more than its capacity, a push that finds it full stays suspended until
\* its operation is accepted and the operation is never dropped, and the
\* native loop is woken only after the operation is in the queue.
Backpressure ==
    /\ []BackpressureState
    /\ [][BackpressureStep /\ WakeAfterAccept]_vars

\* C10 witness: a push is suspended on a full queue, after an earlier push
\* was accepted and woke the native loop.
SuspendedOnFull ==
    \E k \in Tasks :
        /\ push[k] = "send"
        /\ Len(evl_ops) = EvlOpsCapacity
        /\ wake_pending

(***************************************************************************)
(* Properties of the window registry.                                      *)
(***************************************************************************)
\* A post_event call was made in this step, for a window event of `id`.
PostedFor(id) ==
    /\ posts' = posts + 1
    /\ IsSome(last_post')
    /\ Unwrap(last_post').type = "WindowEvent"
    /\ Unwrap(last_post').window_id = id

\* C9: once remove_window(id) has returned, and until the id is inserted
\* again, a post_event of a window event for that id is dropped: it returns
\* without awaiting any signal, runs no broadcaster and leaves the registry
\* as it was.
DroppedAfterRemove ==
    [][\A id \in WindowIds :
          ((\E e \in removed : e[1] = id) /\ PostedFor(id)) =>
              /\ post' = None
              /\ signals' = signals
              /\ last_signal' = last_signal
              /\ windows' = windows]_vars

\* C9 witness: an event was delivered to the registration of a window, the
\* window was removed, and a second event for it was posted and dropped.
DroppedEventSeen ==
    \E e \in removed :
        /\ IsSome(e[2])
        /\ posts = 2
        /\ signals = 1
        /\ post = None
        /\ IsSome(last_signal)
        /\ Unwrap(last_signal)[1] = Unwrap(e[2])
        /\ IsSome(last_post)
        /\ Unwrap(last_post).type = "WindowEvent"
        /\ Unwrap(last_post).window_id = e[1]
        /\ IsSome(SignalHandler(Unwrap(last_post).event))

(***************************************************************************)
(* The timer calls, each run as a whole.                                   *)
(***************************************************************************)
NextCalls ==
    \/ SetProxy
    \/ Tick
    \/ \E t \in Timers : NewTimer(t)
    \/ \E t \in Timers, w \in Wakers : TimerPoll(t, w)
    \/ \E t \in Timers : TimerDrop(t)
    \/ ProcessTimersCall(<<>>)

SpecCalls == Init /\ [][NextCalls]_vars

\* The native loop's process_timers calls, with tasks that register and
\* deregister wakers directly.
NextLoop ==
    \/ Tick
    \/ \E d \in ApiDeadlines, w \in Wakers : InsertTimerCall(d, w)
    \/ \E d \in ApiDeadlines, id \in 1..MaxApiInserts : RemoveTimerCall(d, id)
    \/ \E b \in Buffers : ProcessTimersCall(b)

SpecLoop == Init /\ [][NextLoop]_vars

(***************************************************************************)
(* Threads that race to construct the reactor.                             *)
(***************************************************************************)
NextNew ==
    \/ \E n \in Constructors : NewSwap(n)
    \/ \E n \in Constructors : NewReturn(n)

SpecNew == Init /\ [][NextNew]_vars

\* C11: at most one Reactor::new call ever gets past the flag: every call
\* but that one has panicked, whichever way the calls interleave, so at
\* most one Reactor exists.
Singleton ==
    /\ Cardinality(reactors \cup {<<n, new_pc[n].calls>> :
                                     n \in {m \in Constructors : new_pc[m].pc = "build"}}) <= 1
    /\ \A n \in Constructors :
           new_pc[n].calls =
               new_pc[n].panics + Cardinality({r \in reactors : r[1] = n})
                   + (IF new_pc[n].pc = "build" THEN 1 ELSE 0)
    /\ already_exists <=>
           (reactors # {} \/ \E n \in Constructors : new_pc[n].pc = "build")

\* C11 witness: one thread is still building the Reactor when the racing
\* call of another thread has already panicked.
RacedConstruction ==
    \E n, m \in Constructors :
        /\ n # m
        /\ new_pc[n].pc = "build"
        /\ new_pc[m].panics = 1
        /\ reactors = {}

(***************************************************************************)
(* Properties of the whole calls.                                          *)
(***************************************************************************)
\* This step is a call of fn: it has left its record, or has changed what
\* a call can change.
CallStep(fn) ==
    /\ last_call'.fn = fn
    /\ \/ last_call' # last_call
       \/ <<timer, timers, timer_op_queue, timer_id, wake_pending, results>>'
             # <<timer, timers, timer_op_queue, timer_id, wake_pending, results>>

\* This step is a call of fn made on Timer t.
TimerCallStep(fn, t) == CallStep(fn) /\ last_call'.timer = t

\* C12: the drop of a Timer that holds a registration (id and waker) finds
\* its deadline and stages exactly one operation, the Remove of that
\* (deadline, id), at the back of the staging queue; the drop of a Timer
\* that holds none stages nothing and leaves queue and wheel as they were.
\* Either way the drop allocates no id and wakes nobody.
DropDeregisters ==
    [][\A t \in Timers :
          TimerCallStep("drop", t) =>
              /\ timer'[t].state = "dropped"
              /\ timer_id' = timer_id /\ wake_pending' = wake_pending
              /\ IF IsSome(timer[t].id_and_waker)
                 THEN /\ IsSome(timer[t].deadline)
                      /\ LET op == RemoveTimer(Unwrap(timer[t].deadline),
                                               Unwrap(timer[t].id_and_waker)[1])
                         IN /\ last_call'.pushed = <<op>>
                            /\ timer_op_queue'[Len(timer_op_queue')] = op
                 ELSE /\ last_call'.pushed = <<>>
                      /\ timer_op_queue' = timer_op_queue
                      /\ timers' = timers]_vars

\* C12 witness: a Timer whose entry was in the wheel has been dropped, and
\* the Remove of that entry is staged.
DroppedWithEntry ==
    /\ last_call.fn = "drop"
    /\ Len(last_call.pushed) = 1
    /\ \E e \in timers :
          /\ last_call.pushed[1] = RemoveTimer(e.deadline, e.id)
          /\ last_call.pushed[1] \in Range(timer_op_queue)

\* C13: a Timer without a deadline never touches the wheel: each of its
\* polls returns Pending, and its polls and its drop stage nothing,
\* allocate no id, leave queue and wheel as they were and wake nobody; a
\* Timer made without a deadline never yields an instant.
NeverUntouched ==
    /\ [][\A t \in Timers :
            ( /\ timer[t].state = "live"
              /\ ~IsSome(timer[t].deadline)
              /\ TimerCallStep("poll_next", t) \/ TimerCallStep("drop", t) )
            => /\ last_call'.pushed = <<>>
               /\ last_call'.poll = [ready |-> FALSE, item |-> None]
               /\ UNCHANGED <<timer_op_queue, timers, timer_id, wake_pending,
                              results>>]_vars
    /\ [](\A t \in Timers :
            (timer[t].state # "unborn" /\ ~IsSome(created[t].deadline))
                => /\ results[t] = <<>>
                   /\ timer_op_queue = <<>> /\ timers = {}
                   /\ timer_id = 1 /\ ~wake_pending)

\* C13 witness: a never Timer has been polled while the native loop could
\* be woken, and the poll returned Pending.
NeverPolled ==
    \E t \in Timers :
        /\ timer[t].state = "live"
        /\ ~IsSome(created[t].deadline)
        /\ IsSome(proxy)
        /\ last_call.fn = "poll_next" /\ last_call.timer = t
        /\ ~last_call.poll.ready

\* The Timer was made by Timer::at or Timer::after: it has a start and no
\* period.
OneShot(t) ==
    /\ timer[t].state # "unborn"
    /\ IsSome(created[t].deadline)
    /\ created[t].period = DurationMAX

\* C14: a one-shot Timer yields at most one instant, its deadline, and
\* has no deadline from then on; every poll after that returns Pending,
\* stages nothing and allocates no id.
OneShotOnce ==
    /\ [](\A t \in Timers :
            OneShot(t) =>
                /\ Len(results[t]) <= 1
                /\ Len(results[t]) = 1 =>
                       /\ results[t][1] = Unwrap(created[t].deadline)
                       /\ ~IsSome(timer[t].deadline)
                       /\ ~IsSome(timer[t].id_and_waker))
    /\ [][\A t \in Timers :
            (OneShot(t) /\ results[t] # <<>> /\ TimerCallStep("poll_next", t))
            => /\ last_call'.poll = [ready |-> FALSE, item |-> None]
               /\ last_call'.pushed = <<>>
               /\ UNCHANGED <<timer_op_queue, timers, timer_id, results>>]_vars

\* C14 witness: a one-shot Timer has yielded its deadline and a later poll
\* has returned Pending.
OneShotPolledAgain ==
    \E t \in Timers :
        /\ OneShot(t)
        /\ timer[t].state = "live"
        /\ results[t] = <<Unwrap(created[t].deadline)>>
        /\ last_call.fn = "poll_next" /\ last_call.timer = t
        /\ ~last_call.poll.ready

\* C15 as claimed: polled as a stream, a one-shot Timer yields its one
\* item and after that answers a poll with the end of the stream,
\* Ready(None); an interval Timer never answers with the end; a never
\* Timer answers every poll with Pending.
StreamShape ==
    \A t \in Timers :
        ( /\ timer[t].state = "live"
          /\ last_call.fn = "poll_next" /\ last_call.timer = t )
        => IF ~IsSome(created[t].deadline)
           THEN last_call.poll = Pending
           ELSE IF created[t].period = DurationMAX
           THEN IF results[t] = <<>>
                THEN last_call.poll = Pending
                ELSE last_call.poll \in {Ready(created[t].deadline), Ready(None)}
           ELSE last_call.poll # Ready(None)

(***************************************************************************)
(* A broadcaster, the tasks that wait on it and the broadcasts made on it. *)
(***************************************************************************)
NextHandler ==
    \/ \E l \in Listeners, mode \in WaitModes : ListenerRegister(l, mode)
    \/ RunWithBegin
    \/ RunWithDeliver
    \/ RunWithEnd

SpecHandler == Init /\ [][NextHandler]_vars

\* C16: an occurrence is delivered exactly once to each listener that was
\* registered when its broadcast began (once the broadcast has returned;
\* at most once while it runs), and never to a listener registered after
\* the broadcast began.
BroadcastOnce ==
    \A n \in 1..Len(snapshots), l \in Listeners :
        LET running == IsSome(broadcast) /\ Unwrap(broadcast).occurrence = n
        IN IF l \notin snapshots[n]
           THEN delivered[l][n] = 0
           ELSE IF running
           THEN delivered[l][n] =
                    (IF l \in Range(Unwrap(broadcast).left) THEN 0 ELSE 1)
           ELSE delivered[l][n] = 1

\* C16 witness: the first broadcast began with two listeners and has
\* delivered to both; a third listener, registered after it began, did
\* not get that occurrence and got the next one.
LateListenerMissed ==
    /\ Len(snapshots) = 2
    /\ Cardinality(snapshots[1]) = 2
    /\ \A l \in snapshots[1] : delivered[l][1] = 1
    /\ \E l \in Listeners \ snapshots[1] :
          /\ delivered[l][1] = 0
          /\ delivered[l][2] = 1

\* The smallest deadline among the entries of a non-empty wheel.
SmallestDeadline(wheel) ==
    CHOOSE d \in {e.deadline : e \in wheel} : \A e \in wheel : d <= e.deadline

\* C17: process_timers returns now if the call fired at least one timer,
\* otherwise the smallest deadline left in the wheel, otherwise (the wheel
\* is empty) nothing.
ReturnsWait ==
    [][CallStep("process_timers") =>
         last_call'.deadline =
            IF Len(last_call'.wakers) > Len(last_call'.buffer)
            THEN Some(now)
            ELSE IF timers' # {}
            THEN Some(SmallestDeadline(timers'))
            ELSE None]_vars

\* C17 witness: a call fired a timer while a later timer stayed in the
\* wheel, and returned now, not the later deadline.
FiredReturnsNow ==
    /\ last_call.fn = "process_timers"
    /\ last_call.ready # <<>>
    /\ timers # {}
    /\ last_call.deadline = Some(now)
    /\ SmallestDeadline(timers) > now

\* C18: process_timers partitions the wheel (with the staged operations
\* applied) at now: every entry with deadline <= now leaves the wheel and
\* its waker is appended to the buffer, in key order; every entry with
\* deadline > now stays as it was; the buffer keeps what it held and gets
\* nothing else.
PartitionAtNow ==
    [][CallStep("process_timers") =>
         LET wheel == ApplyOps(timers, timer_op_queue)
             due == {e \in wheel : e.deadline <= now}
         IN /\ timers' = wheel \ due
            /\ Range(last_call'.ready) = due
            /\ Len(last_call'.ready) = Cardinality(due)
            /\ \A i, j \in 1..Len(last_call'.ready) :
                  i < j => KeyLess(Key(last_call'.ready[i]),
                                   Key(last_call'.ready[j]))
            /\ Len(last_call'.wakers) =
                  Len(last_call'.buffer) + Len(last_call'.ready)
            /\ \A i \in 1..Len(last_call'.buffer) :
                  last_call'.wakers[i] = last_call'.buffer[i]
            /\ \A i \in 1..Len(last_call'.ready) :
                  last_call'.wakers[Len(last_call'.buffer) + i] =
                     last_call'.ready[i].waker]_vars

\* C18 witness: a call with a non-empty buffer fired an entry whose
\* deadline is exactly now and left a later entry in the wheel.
SplitAtBoundary ==
    /\ last_call.fn = "process_timers"
    /\ last_call.buffer # <<>>
    /\ \E i \in 1..Len(last_call.ready) : last_call.ready[i].deadline = now
    /\ Len(last_call.wakers) > Len(last_call.buffer)
    /\ \E e \in timers : e.deadline > now

\* C19: process_timers applies every operation staged when it starts
\* before it splits the wheel: the queue is empty afterwards, a staged
\* Insert with deadline <= now that no later staged Remove cancels fires
\* in this call, and the entry of a staged Remove (not inserted again
\* after it) neither fires in this call nor stays in the wheel.
StagedOpsApplied ==
    [][CallStep("process_timers") =>
         LET q == timer_op_queue
             SameKey(a, b) == a.deadline = b.deadline /\ a.id = b.id
         IN /\ timer_op_queue' = <<>>
            /\ last_call'.taken = q
            /\ \A i \in 1..Len(q) :
                  /\ ( /\ q[i].op = "InsertTimer"
                       /\ q[i].deadline <= now
                       /\ \A j \in (i + 1)..Len(q) : ~SameKey(q[i], q[j]) )
                     => Entry(q[i].deadline, q[i].id, q[i].waker)
                           \in Range(last_call'.ready)
                  /\ ( /\ q[i].op = "RemoveTimer"
                       /\ \A j \in (i + 1)..Len(q) : ~SameKey(q[i], q[j]) )
                     => \A e \in Range(last_call'.ready) \cup timers' :
                           Key(e) # <<q[i].deadline, q[i].id>>]_vars

\* C19 witness: one call took a due Insert from the queue and fired it,
\* and took the Remove of a due entry it found in the wheel, which
\* neither fired nor stayed.
StagedInsertFired ==
    /\ last_call.fn = "process_timers"
    /\ \E i \in 1..Len(last_call.taken) :
          /\ last_call.taken[i].op = "InsertTimer"
          /\ last_call.taken[i].deadline <= now
          /\ Entry(last_call.taken[i].deadline, last_call.taken[i].id,
                   last_call.taken[i].waker) \in Range(last_call.ready)
    /\ \E j \in 1..Len(last_call.taken), e \in last_call.wheel :
          /\ last_call.taken[j].op = "RemoveTimer"
          /\ Key(e) = <<last_call.taken[j].deadline, last_call.taken[j].id>>
          /\ e.deadline <= now
          /\ e \notin Range(last_call.ready)
          /\ e \notin timers

\* C20: a poll of a Timer whose deadline has passed (deadline < now)
\* fires it: the poll returns the deadline as it was before the call; if
\* the Timer held a wheel entry, its removal is staged first and the
\* entry is gone once the staged operations are applied; if deadline +
\* period does not overflow, the deadline becomes deadline + period and
\* an entry for it, under a fresh id and with the waker of this poll, is
\* staged and held by the Timer; on overflow the Timer has no deadline
\* and no entry from then on.
FiresWhenPassed ==
    [][\A t \in Timers, w \in Wakers :
         ( /\ IsSome(timer[t].deadline)
           /\ Unwrap(timer[t].deadline) < now
           /\ TimerCallStep("poll_next", t)
           /\ last_call'.waker = Some(w) )
         => LET d == Unwrap(timer[t].deadline)
                held_entry == timer[t].id_and_waker
                staged_removal == IF IsSome(held_entry)
                           THEN <<RemoveTimer(d, Unwrap(held_entry)[1])>>
                           ELSE <<>>
                wheel == ApplyOps(timers', timer_op_queue')
            IN /\ last_call'.poll = [ready |-> TRUE, item |-> Some(d)]
               /\ results'[t] = Append(results[t], d)
               /\ IsSome(held_entry) =>
                     \A e \in wheel : e.id # Unwrap(held_entry)[1]
               /\ IF d + timer[t].period <= InstantMAX
                  THEN /\ timer'[t].deadline = Some(d + timer[t].period)
                       /\ timer'[t].id_and_waker = Some(<<timer_id, w>>)
                       /\ timer_id' = timer_id + 1
                       /\ last_call'.pushed = staged_removal \o
                             <<InsertTimer(d + timer[t].period, timer_id, w)>>
                       /\ Entry(d + timer[t].period, timer_id, w) \in wheel
                  ELSE /\ timer'[t].deadline = None
                       /\ timer'[t].id_and_waker = None
                       /\ timer_id' = timer_id
                       /\ last_call'.pushed = staged_removal]_vars

\* C20 witness: a poll fired an interval Timer that held a wheel entry:
\* it returned the old deadline, staged the removal of the old entry and
\* the insertion of the next one, and the Timer now holds the next entry
\* with the waker of that poll.
FiredAndReregistered ==
    \E t \in Timers :
        /\ last_call.fn = "poll_next" /\ last_call.timer = t
        /\ last_call.poll.ready
        /\ Len(last_call.pushed) = 2
        /\ last_call.pushed[1].op = "RemoveTimer"
        /\ last_call.pushed[2].op = "InsertTimer"
        /\ IsSome(timer[t].deadline)
        /\ Unwrap(last_call.poll.item) < Unwrap(timer[t].deadline)
        /\ last_call.pushed[2].deadline = Unwrap(timer[t].deadline)
        /\ timer[t].id_and_waker =
              Some(<<last_call.pushed[2].id, Unwrap(last_call.waker)>>)

\* C21: the wheel wakes the most recent poller.  After a poll of a Timer
\* whose deadline has not passed, with waker w, returned Pending, once
\* the staged operations are applied no wheel entry of the Timer carries
\* a waker other than w or a deadline other than the Timer's, the Timer
\* has at most one entry, and while the deadline is still ahead
\* (deadline > now) it has exactly the entry it holds, carrying w.
MostRecentPoller ==
    [][\A t \in Timers, w \in Wakers :
         ( /\ TimerCallStep("poll_next", t)
           /\ last_call'.waker = Some(w)
           /\ ~last_call'.poll.ready
           /\ IsSome(timer[t].deadline) )
         => LET d == Unwrap(timer[t].deadline)
                wheel == ApplyOps(timers', timer_op_queue')
            IN /\ \A e \in wheel : e.waker = w /\ e.deadline = d
               /\ Cardinality(wheel) <= 1
               /\ d > now =>
                    /\ IsSome(timer'[t].id_and_waker)
                    /\ Unwrap(timer'[t].id_and_waker)[2] = w
                    /\ wheel = {Entry(d, Unwrap(timer'[t].id_and_waker)[1], w)}]_vars

\* C21 witness: a registered Timer was polled with another waker before
\* its deadline: the poll staged the removal of the old entry and the
\* insertion of a new one, and the wheel as staged holds only the new
\* waker.
RepolledWithNewWaker ==
    \E t \in Timers :
        /\ last_call.fn = "poll_next" /\ last_call.timer = t
        /\ ~last_call.poll.ready
        /\ Len(last_call.pushed) = 2
        /\ last_call.pushed[1].op = "RemoveTimer"
        /\ last_call.pushed[2].op = "InsertTimer"
        /\ last_call.pushed[2].waker = Unwrap(last_call.waker)
        /\ IsSome(timer[t].deadline)
        /\ Unwrap(timer[t].deadline) > now
        /\ \A e \in ApplyOps(timers, timer_op_queue) :
              e.waker = Unwrap(last_call.waker)
        /\ ApplyOps(timers, timer_op_queue) # {}

\* C22: insert_timer wakes the native loop only after its Insert was
\* accepted, and on every call.  A step that returns from insert_timer is
\* its notify step, taken when the Insert of this call is already in the
\* staging queue or applied from it, and it leaves the wake-up pending
\* whenever the handle is set; the wake-up becomes pending only by such a
\* step, so the iteration it causes finds the Insert staged or applied.
WakeAfterInsert ==
    [][/\ \A t \in Threads :
            (call[t].pc \in InsertLabels /\ call'[t].pc \notin InsertLabels)
            => /\ call[t].sub = "notify"
               /\ CurrentOp(t) \in staged_ops
               /\ CurrentOp(t) \in Range(timer_op_queue) \cup applied_ops
               /\ UNCHANGED <<timer_op_queue, timers>>
               /\ IsSome(proxy) => wake_pending'
       /\ (wake_pending' /\ ~wake_pending)
            => \E t \in Threads :
                 /\ call[t].pc \in InsertLabels
                 /\ call[t].sub = "notify"
                 /\ call'[t] = IdleCall
                 /\ CurrentOp(t) \in Range(timer_op_queue') \cup applied_ops']_vars

\* C22 witness: insert_timer has returned to a poll, the wake-up is
\* pending and the Insert of that call is in the staging queue for the
\* process_timers of the woken loop to apply.
WokenWithInsertStaged ==
    \E t \in Timers :
        /\ call[t].pc = "idle"
        /\ IsSome(proxy)
        /\ wake_pending
        /\ IsSome(timer[t].deadline)
        /\ IsSome(timer[t].id_and_waker)
        /\ InsertTimer(Unwrap(timer[t].deadline), Unwrap(timer[t].id_and_waker)[1],
                       Unwrap(timer[t].id_and_waker)[2]) \in Range(timer_op_queue)

(***************************************************************************)
(* The staging calls while the native loop can be woken.                   *)
(***************************************************************************)
NextStaging ==
    \/ SetProxy
    \/ \E d \in ApiDeadlines, w \in Wakers : InsertTimerCall(d, w)
    \/ \E d \in ApiDeadlines, id \in 1..MaxApiInserts : RemoveTimerCall(d, id)
    \/ ProcessTimersCall(<<>>)

SpecStaging == Init /\ [][NextStaging]_vars

\* C23: remove_timer never notifies the native loop.  A call stages its
\* Remove at the tail of the queue, after draining the queue into the
\* wheel when it was full, and changes nothing else: the wake-up handle
\* and the pending wake-up, the exit state, the window registry and the
\* timer-id counter are as before.
RemoveOnlyStages ==
    [][CallStep("remove_timer") =>
         /\ UNCHANGED <<proxy, wake_pending, exitVars, winVars, timer_id>>
         /\ Len(last_call'.pushed) = 1
         /\ last_call'.pushed[1].op = "RemoveTimer"
         /\ IF QueueFull(timer_op_queue)
            THEN /\ timers' = ApplyOps(timers, timer_op_queue)
                 /\ timer_op_queue' = last_call'.pushed
            ELSE /\ timers' = timers
                 /\ timer_op_queue' = timer_op_queue \o last_call'.pushed]_vars

\* C23 witness: remove_timer was called with the handle set and no
\* wake-up pending, staged its Remove, and no wake-up is pending.
RemovedWithoutWake ==
    /\ last_call.fn = "remove_timer"
    /\ IsSome(proxy)
    /\ ~wake_pending
    /\ timer_op_queue # <<>>
    /\ timer_op_queue[Len(timer_op_queue)] = last_call.pushed[1]

(***************************************************************************)
(* Threads in the calls that take the reactor's locks or suspend.          *)
(***************************************************************************)
NextLocks ==
    \/ \E k \in LockThreads, event \in LockEvents : PostEventLock(k, event)
    \/ \E k \in LockThreads : PostEventGet(k)
    \/ \E k \in LockThreads, event \in LockEvents : PostEventGlobal(k, event)
    \/ \E k \in LockThreads : PostEventResume(k)
    \/ \E k \in LockThreads, id \in LockWindows,
          fn \in {"insert_window", "remove_window"} : WindowLock(k, fn, id)
    \/ \E k \in LockThreads : WindowDone(k)
    \/ \E k \in LockThreads, d \in LockDeadlines : InsertTimerEnter(k, d)
    \/ \E k \in LockThreads, d \in LockDeadlines, id \in 1..MaxLockInserts :
          RemoveTimerEnter(k, d, id)
    \/ \E k \in LockThreads : TimerPushAccepted(k)
    \/ \E k \in LockThreads : TimerPushFailed(k)
    \/ \E k \in LockThreads : TimerDrained(k)
    \/ \E k \in LockThreads : ProcessTimersLock(k)
    \/ \E k \in LockThreads : ProcessTimersSplit(k)
    \/ \E k \in LockThreads : ProcessTimersReturn(k)
    \/ \E k \in LockThreads : PushOpAwait(k)
    \/ \E k \in LockThreads : PushOpSent(k)

SpecLocks == Init /\ [][NextLocks]_vars

\* C24: no lock is held across a suspension point.  A thread suspended at
\* an .await (of the registration's broadcast in post_event, of the send
\* in push_event_loop_op) holds no guard, and a thread that is in none of
\* post_event, push_event_loop_op, insert_timer, remove_timer and
\* process_timers, having returned from it, holds none either; the
\* registry guard and the wheel guard are never held together.
NoLockAcrossSuspension ==
    /\ \A k \in LockThreads :
          lk[k].pc \in SuspensionPoints \cup {"idle", "push", "extend"}
             => Guards(k) = {}
    /\ \A k \in LockThreads : Cardinality(Guards(k)) <= 1

\* C24 witness: one thread is suspended in post_event on the broadcast of
\* a window's registration while another thread holds the registry lock.
AwaitingWhileOtherLocks ==
    \E k, other \in LockThreads :
        /\ k # other
        /\ lk[k].fn = "post_event"
        /\ lk[k].pc = "await"
        /\ Unwrap(lk[k].arg).registration # evl_registration
        /\ locks["windows"] = Some(other)

\* C25: post_event routes each event to one destination.  A window event
\* selects the registration stored under its window id at that moment,
\* which is stored under no other id, or nothing when the id has none;
\* Resumed selects the global resumed broadcaster and Suspended the global
\* suspended one; any other event selects nothing and post_event returns
\* at once.  The broadcast that follows runs one broadcaster, on the
\* registration selected, and nothing else ever runs a broadcaster.
RoutedToOne ==
    [][/\ posts' # posts =>
            LET e == Unwrap(last_post')
                r == HashMapGet(windows, e.window_id)
            IN /\ posts' = posts + 1
               /\ signals' = signals
               /\ CASE e.type = "WindowEvent" /\ IsSome(r) ->
                         /\ IsSome(post')
                         /\ Unwrap(post').registration = Unwrap(r)
                         /\ Unwrap(post').registration # evl_registration
                         /\ \A id \in WindowIds \ {e.window_id} :
                               HashMapGet(windows, id) # r
                    [] e.type = "WindowEvent" /\ ~IsSome(r) -> post' = None
                    [] e.type = "Resumed" ->
                         post' = Some([registration |-> evl_registration,
                                       handler |-> Some("resumed")])
                    [] e.type = "Suspended" ->
                         post' = Some([registration |-> evl_registration,
                                       handler |-> Some("suspended")])
                    [] OTHER -> post' = None
       /\ signals' # signals =>
            /\ IsSome(post)
            /\ IsSome(Unwrap(post).handler)
            /\ post' = None
            /\ signals' = signals + 1
            /\ last_signal' = Some(<<Unwrap(post).registration,
                                     Unwrap(Unwrap(post).handler)>>)]_vars

\* C25 witness: two windows hold different registrations and an event
\* posted for the second was broadcast on the second's registration.
RoutedToSecondWindow ==
    /\ IsSome(HashMapGet(windows, "win1"))
    /\ IsSome(HashMapGet(windows, "win2"))
    /\ HashMapGet(windows, "win1") # HashMapGet(windows, "win2")
    /\ IsSome(last_post)
    /\ Unwrap(last_post).type = "WindowEvent"
    /\ Unwrap(last_post).window_id = "win2"
    /\ post = None
    /\ IsSome(last_signal)
    /\ Some(Unwrap(last_signal)[1]) = HashMapGet(windows, "win2")
    /\ Some(Unwrap(last_signal)[2]) = SignalHandler(Unwrap(last_post).event)

\* C26 as claimed: signal runs one broadcaster of the registration for
\* each event kind it has an arm for, a different one for each kind, and
\* none for the other kinds; and every broadcaster the registration owns,
\* received_character included, is run for some event kind.
SignalDemux ==
    /\ IsSome(last_signal) => Unwrap(last_signal)[2] \in
          RegistrationHandlers \cup {"resumed", "suspended"}
    /\ \A kind \in SignalledKinds :
          /\ IsSome(SignalHandler(kind))
          /\ Unwrap(SignalHandler(kind)) \in RegistrationHandlers
    /\ \A k1, k2 \in SignalledKinds :
          SignalHandler(k1) = SignalHandler(k2) => k1 = k2
    /\ \A kind \in UnmodelledKinds : SignalHandler(kind) = None
    /\ \A h \in RegistrationHandlers :
          \E kind \in WindowEventKinds : SignalHandler(kind) = Some(h)

\* The part of C26 that the code keeps: the same without the last clause.
SignalDemuxOfArms ==
    /\ IsSome(last_signal) => Unwrap(last_signal)[2] \in
          (RegistrationHandlers \ {"received_character"})
             \cup {"resumed", "suspended"}
    /\ \A kind \in SignalledKinds :
          /\ IsSome(SignalHandler(kind))
          /\ Unwrap(SignalHandler(kind)) \in RegistrationHandlers
    /\ \A k1, k2 \in SignalledKinds :
          SignalHandler(k1) = SignalHandler(k2) => k1 = k2
    /\ \A kind \in UnmodelledKinds : SignalHandler(kind) = None
    /\ {Unwrap(SignalHandler(kind)) : kind \in SignalledKinds}
          = RegistrationHandlers \ {"received_character"}

\* The operations that were run, without the marks.
RanOpsOf(log) == [i \in 1..Len(log) |-> log[i].op]

\* C27: one call of drain_loop_queue runs at most capacity operations, in
\* FIFO order and one at a time, and returns as soon as it finds the queue
\* empty; what is past the bound stays queued, in order.  The operations
\* run so far followed by the queue are the operations accepted, in
\* order; no call runs more than capacity of them; a step of a call runs
\* exactly the head of the queue while iterations are left and the queue
\* is not empty, and otherwise ends the call leaving the queue as it is.
BoundedDrain ==
    /\ [](/\ RanOpsOf(ran) \o evl_ops = accepted
          /\ \A i, j \in 1..Len(ran) :
                (i <= j /\ \A m \in (i + 1)..j : ~ran[m].first)
                   => j - i + 1 <= EvlOpsCapacity
          /\ IsSome(drain) => Unwrap(drain) \in 0..EvlOpsCapacity)
    /\ [][(IsSome(drain) /\ drain' # drain) =>
            IF Unwrap(drain) > 0 /\ evl_ops # <<>>
            THEN /\ drain' = Some(Unwrap(drain) - 1)
                 /\ ran' = Append(ran, [op |-> Head(evl_ops),
                                        first |-> Unwrap(drain) = EvlOpsCapacity])
                 /\ evl_ops' = Tail(evl_ops)
            ELSE /\ drain' = None
                 /\ UNCHANGED <<ran, evl_ops>>]_vars
    /\ [][ran' # ran => IsSome(drain) /\ IsSome(drain')]_vars

\* C27 witness: a call has run capacity operations and ends while an
\* operation sent during the call is still queued.
LeftForNextCall ==
    /\ IsSome(drain)
    /\ Unwrap(drain) = 0
    /\ evl_ops # <<>>
    /\ Len(ran) >= EvlOpsCapacity
    /\ ran[Len(ran) - EvlOpsCapacity + 1].first

(***************************************************************************)
(* Requests of every variant run on the native thread.                     *)
(***************************************************************************)
NextRun ==
    \E variant \in OpVariants :
        \E result \in NativeResults(variant) : RunRequest(variant, result)

SpecRun == Init /\ [][NextRun]_vars

\* The positions of the sends in what a run did.
SendsOf(steps) == {i \in 1..Len(steps) : steps[i].ev = "send"}

\* C28: running a request delivers exactly one value on its completion
\* channel, whatever the variant: the unit for a setter, and for the other
\* variants what the native call returned, an error included, unchanged;
\* the value is sent after the native call was made.
ExactlyOneCompletion ==
    \A r \in 1..Len(run_trace) :
        LET req == run_trace[r]
            sends == SendsOf(req.steps)
        IN /\ Cardinality(sends) = 1
           /\ \A i \in sends :
                 /\ req.steps[i].value =
                       (IF req.variant \in SetterOps THEN Unit ELSE req.result)
                 /\ \E j \in 1..(i - 1) :
                       /\ req.steps[j].ev = "native"
                       /\ req.steps[j].variant = req.variant

\* C28 witness: a request whose native call failed delivered the error,
\* and a setter delivered the unit after its call.
ErrorDelivered ==
    /\ \E r \in 1..Len(run_trace) :
          /\ run_trace[r].variant \in FallibleMutatingOps
          /\ run_trace[r].result = "Err"
          /\ run_trace[r].steps[2] = CompleteSend("Err")
    /\ \E r \in 1..Len(run_trace) :
          /\ run_trace[r].variant \in SetterOps
          /\ run_trace[r].steps = <<NativeCall(run_trace[r].variant, Unit),
                                    CompleteSend(Unit)>>

\* C29: a waker that panics when it is dropped by a staged Remove is
\* isolated.  No call of process_timers, insert_timer or remove_timer ends
\* by that panic; a drain applies every operation it took, so the entry of
\* the Remove is gone from the wheel, the other entries are as the staged
\* operations leave them, and those that are due fire in the call.
PanicIsolated ==
    [][/\ CallStep("process_timers") =>
            LET wheel == ApplyOps(timers, timer_op_queue)
                due == {e \in wheel : e.deadline <= now}
            IN /\ ~last_call'.panicked
               /\ timer_op_queue' = <<>>
               /\ timers' = wheel \ due
               /\ Range(last_call'.ready) = due
       /\ (CallStep("insert_timer") \/ CallStep("remove_timer")) =>
            /\ ~last_call'.panicked
            /\ Len(last_call'.pushed) = 1
            /\ IF QueueFull(timer_op_queue)
               THEN /\ timers' = ApplyOps(timers, timer_op_queue)
                    /\ timer_op_queue' = last_call'.pushed
               ELSE /\ timers' = timers
                    /\ timer_op_queue' = timer_op_queue \o last_call'.pushed]_vars

\* C29 witness: process_timers applied the Remove of an entry it found in
\* the wheel, whose waker panics when dropped, then applied a later
\* staged operation and fired another timer's entry; it returned.
PanickyWakerRemoved ==
    /\ last_call.fn = "process_timers"
    /\ ~last_call.panicked
    /\ \E i \in 1..Len(last_call.taken), e \in last_call.wheel :
          /\ last_call.taken[i].op = "RemoveTimer"
          /\ Key(e) = <<last_call.taken[i].deadline, last_call.taken[i].id>>
          /\ DropPanics(e.waker)
          /\ e \notin timers
          /\ e \notin Range(last_call.ready)
          /\ i < Len(last_call.taken)
    /\ \E j \in 1..Len(last_call.ready) : ~DropPanics(last_call.ready[j].waker)
    /\ timer_op_queue = <<>>

(***************************************************************************)
(* A Timer made by after or interval, polled and dropped.                  *)
(***************************************************************************)
NextCtor ==
    \/ SetProxy
    \/ Tick
    \/ \E t \in Timers, ctor \in {"after", "interval"}, duration \in Periods :
          ConstructTimer(t, ctor, duration)
    \/ \E t \in Timers, w \in Wakers : TimerPoll(t, w)
    \/ \E t \in Timers : TimerDrop(t)
    \/ ProcessTimersCall(<<>>)

SpecCtor == Init /\ [][NextCtor]_vars

\* now + duration overflowed when the Timer was built.
Overflowed(t) ==
    /\ IsSome(built[t])
    /\ Unwrap(built[t]).at + Unwrap(built[t]).duration > InstantMAX

\* C30: Timer::after(duration) and Timer::interval(period) always return a
\* Timer.  When now + duration overflows it is the never Timer: it has no
\* deadline and no registration, stages nothing, takes no timer id, wakes
\* nobody and no poll of it is ever Ready.  Otherwise its deadline is now
\* + duration, with the period given (none for after).
SaturatesToNever ==
    \A t \in Timers :
        IsSome(built[t]) =>
            LET b == Unwrap(built[t])
            IN IF Overflowed(t)
               THEN /\ created[t] = never
                    /\ ~IsSome(timer[t].deadline)
                    /\ ~IsSome(timer[t].id_and_waker)
                    /\ results[t] = <<>>
                    /\ timer_op_queue = <<>> /\ timers = {}
                    /\ timer_id = 1 /\ ~wake_pending
               ELSE /\ created[t].deadline = Some(b.at + b.duration)
                    /\ created[t].id_and_waker = None
                    /\ created[t].period =
                          (IF b.ctor = "after" THEN DurationMAX ELSE b.duration)

\* C30 witness: Timer::interval with a finite period was called so late
\* that now + period overflowed; the Timer was polled with the loop's
\* handle set and the poll returned Pending.
OverflowedPolled ==
    \E t \in Timers :
        /\ Overflowed(t)
        /\ Unwrap(built[t]).ctor = "interval"
        /\ Unwrap(built[t]).duration < DurationMAX
        /\ IsSome(proxy)
        /\ last_call.fn = "poll_next" /\ last_call.timer = t
        /\ ~last_call.poll.ready


\* C31: insert_window stores the registration it returns: while the id is
\* not removed, the registry holds under the id the very registration the
\* caller of insert_window got, that registration is one no earlier call
\* returned, and a window event posted for the id goes on to be broadcast on
\* it.
StoresReturnedHandle ==
    [][/\ \A id \in WindowIds :
            (IsSome(HashMapGet(handles', id)) /\ ~\E e \in removed' : e[1] = id)
                => HashMapGet(windows', id) = HashMapGet(handles', id)
       /\ \A id \in WindowIds :
            HashMapGet(handles', id) # HashMapGet(handles, id)
                => \A e \in handles \cup windows :
                       Some(e[2]) # HashMapGet(handles', id)
       /\ \A id \in WindowIds :
            (/\ posts' = posts + 1
             /\ Unwrap(last_post').type = "WindowEvent"
             /\ Unwrap(last_post').window_id = id
             /\ IsSome(HashMapGet(handles, id))
             /\ ~\E e \in removed : e[1] = id)
                => /\ IsSome(post')
                   /\ Some(Unwrap(post').registration) = HashMapGet(handles, id)
       /\ (IsSome(post) /\ IsSome(Unwrap(post).handler) /\ post' = None)
            => last_signal' = Some(<<Unwrap(post).registration,
                                     Unwrap(Unwrap(post).handler)>>)]_vars

\* C31 witness: a window id was inserted twice, and an event posted for it
\* afterwards was broadcast on the registration the second call returned.
SignalledOnHeldHandle ==
    /\ IsSome(last_signal)
    /\ IsSome(last_post)
    /\ Unwrap(last_post).type = "WindowEvent"
    /\ HashMapGet(handles, Unwrap(last_post).window_id) = Some(2)
    /\ HashMapGet(windows, Unwrap(last_post).window_id) = Some(2)
    /\ Unwrap(last_signal)[1] = 2
    /\ \E e \in handles : e[2] = 1


\* C32: no wake-up is lost between process_timers and poll_next: after a
\* poll of a Timer that has a deadline returned Pending, the Timer holds a
\* registration whose (deadline, id) is in the wheel once the staged
\* operations are applied.
NoLostWakeup ==
    \A t \in Timers :
        ( /\ last_call.fn = "poll_next"
          /\ last_call.timer = t
          /\ ~last_call.poll.ready
          /\ IsSome(timer[t].deadline) )
        => /\ IsSome(timer[t].id_and_waker)
           /\ \E e \in ApplyOps(timers, timer_op_queue) :
                 Key(e) = <<Unwrap(timer[t].deadline),
                            Unwrap(timer[t].id_and_waker)[1]>>


\* C33: the operations on one key are applied in the order they were
\* issued: a staged Remove of (deadline, id) has the Insert of that key
\* ahead of it in the queue or already applied, a Remove is applied only
\* after the Insert of its key, and no entry whose Remove was applied stays
\* in the wheel.
InsertBeforeRemove ==
    /\ \A j \in 1..Len(timer_op_queue) :
          timer_op_queue[j].op = "RemoveTimer" =>
            \/ \E ins \in applied_ops :
                  /\ ins.op = "InsertTimer"
                  /\ ins.deadline = timer_op_queue[j].deadline
                  /\ ins.id = timer_op_queue[j].id
            \/ \E i \in 1..(j - 1) :
                  /\ timer_op_queue[i].op = "InsertTimer"
                  /\ timer_op_queue[i].deadline = timer_op_queue[j].deadline
                  /\ timer_op_queue[i].id = timer_op_queue[j].id
    /\ \A rm \in applied_ops :
          rm.op = "RemoveTimer" =>
            \E ins \in applied_ops :
                /\ ins.op = "InsertTimer"
                /\ ins.deadline = rm.deadline
                /\ ins.id = rm.id
    /\ \A e \in timers : RemoveTimer(e.deadline, e.id) \notin applied_ops

\* C33 witness: the push of a Remove found the queue full and was retried
\* after a drain; the Insert of its key and the Remove are both applied,
\* the entry was never output, and the wheel no longer holds it.
RetriedRemoveApplied ==
    \E rm \in retried_ops \cap applied_ops :
        /\ rm.op = "RemoveTimer"
        /\ \E ins \in applied_ops :
              ins.op = "InsertTimer" /\ ins.deadline = rm.deadline /\ ins.id = rm.id
        /\ rm.id \notin FiredIds(fired)
        /\ \A e \in timers : e.id # rm.id


\* C34: each wheel entry fires at most once: no (deadline, id) is output
\* twice, by one process_timers call or by two, and an entry that was
\* output is no longer in the wheel.
FiresAtMostOnce ==
    LET out == Flatten(fired)
    IN /\ \A i, j \in 1..Len(out) : i # j => Key(out[i]) # Key(out[j])
       /\ \A e \in timers : \A i \in 1..Len(out) : Key(out[i]) # Key(e)

\* C34 witness: two process_timers calls have each output an entry, the
\* Remove of one of them was applied after it had been output, and further
\* calls found nothing left to output.
FiredThenRemoved ==
    /\ Len(fired) = 2
    /\ timers = {}
    /\ timer_op_queue = <<>>
    /\ \E rm \in applied_ops :
          rm.op = "RemoveTimer" /\ rm.id \in FiredIds(fired)


\* The ids insert_timer has handed out.
IdsHandedOut == {p[1] : p \in id_owner}

\* C35: timer ids are unique: the ids handed out are 1, 2, ... in the order
\* of the fetch_add steps, no id is handed to two callers or carried by two
\* Inserts, and an entry leaves the wheel only by being output or by the
\* Remove of its own (deadline, id) being applied; the Remove of an entry
\* that was output before takes no entry out.
UniqueTimerIds ==
    [][/\ IdsHandedOut' = 1..(timer_id' - 1)
       /\ \A p, q \in id_owner' : p[1] = q[1] => p = q
       /\ \A id \in IdsHandedOut' \ IdsHandedOut :
             \A old \in IdsHandedOut : old < id
       /\ \A o1, o2 \in staged_ops' :
             (o1.op = "InsertTimer" /\ o2.op = "InsertTimer" /\ o1.id = o2.id)
                => o1 = o2
       /\ \A e \in timers \ timers' :
             \/ e.id \in FiredIds(fired') \ FiredIds(fired)
             \/ RemoveTimer(e.deadline, e.id) \in applied_ops' \ applied_ops
       /\ \A e \in timers \ timers' : e.id \notin FiredIds(fired)]_vars

\* C35 witness: two callers hold entries with the same deadline under
\* different ids; the Remove of one was applied and the other's entry is
\* still in the wheel.
SameDeadlineOtherKept ==
    \E rm \in applied_ops, e \in timers :
        /\ rm.op = "RemoveTimer"
        /\ rm.deadline = e.deadline
        /\ rm.id # e.id
        /\ \E c1, c2 \in Callers :
              c1 # c2 /\ <<rm.id, c1>> \in id_owner /\ <<e.id, c2>> \in id_owner


\* C36: a Timer that holds a registration has a deadline, and it is the
\* deadline of the Insert staged under the id it holds; every Remove that
\* was staged names the (deadline, id) of a staged Insert.
RegistrationMatchesDeadline ==
    /\ \A t \in Timers :
          IsSome(timer[t].id_and_waker) =>
            /\ IsSome(timer[t].deadline)
            /\ \E ins \in staged_ops :
                  /\ ins.op = "InsertTimer"
                  /\ ins.id = Unwrap(timer[t].id_and_waker)[1]
            /\ \A ins \in staged_ops :
                  (ins.op = "InsertTimer"
                     /\ ins.id = Unwrap(timer[t].id_and_waker)[1])
                    => /\ ins.deadline = Unwrap(timer[t].deadline)
                       /\ ins.waker = Unwrap(timer[t].id_and_waker)[2]
    /\ \A rm \in staged_ops :
          rm.op = "RemoveTimer" =>
            \E ins \in staged_ops :
                /\ ins.op = "InsertTimer"
                /\ ins.deadline = rm.deadline
                /\ ins.id = rm.id

\* C36 witness: an interval Timer has fired twice and was then dropped:
\* three Inserts with three deadlines were staged, and each of the three
\* Removes names the key of one of them.
ThreeKeysRemoved ==
    \E t \in Timers :
        /\ timer[t].state = "dropped"
        /\ Len(results[t]) = 2
        /\ Cardinality({o \in staged_ops : o.op = "RemoveTimer"}) = 3
        /\ Cardinality({o.deadline : o \in {p \in staged_ops : p.op = "InsertTimer"}}) = 3


\* C37: a poll of a registered Timer whose deadline has not passed, with
\* the waker it is registered with, changes nothing: it stages no
\* operation, allocates no id, does not wake the native loop, leaves the
\* Timer, the queue and the wheel as they were, and returns Pending.
RepollIsNoOp ==
    [][\A t \in Timers, w \in Wakers :
         ( /\ TimerCallStep("poll_next", t)
           /\ last_call'.waker = Some(w)
           /\ IsSome(timer[t].deadline)
           /\ ~(Unwrap(timer[t].deadline) < now)
           /\ IsSome(timer[t].id_and_waker)
           /\ Unwrap(timer[t].id_and_waker)[2] = w )
         => /\ last_call'.poll = Pending
            /\ last_call'.pushed = <<>>
            /\ timer_op_queue' = timer_op_queue
            /\ timers' = timers
            /\ timer_id' = timer_id
            /\ wake_pending' = wake_pending
            /\ timer' = timer
            /\ results' = results]_vars

\* C37 witness: a registered Timer whose entry is in the wheel was polled
\* again with the same waker before its deadline, while the wake-up handle
\* was set: nothing was staged, no id was allocated since the registration
\* and the native loop was not woken again.
RepolledSameWaker ==
    \E t \in Timers :
        /\ last_call.fn = "poll_next" /\ last_call.timer = t
        /\ last_call.poll = Pending
        /\ last_call.pushed = <<>>
        /\ IsSome(proxy)
        /\ IsSome(timer[t].deadline)
        /\ Unwrap(timer[t].deadline) > now
        /\ timer[t].id_and_waker = Some(<<timer_id - 1, Unwrap(last_call.waker)>>)
        /\ timer_op_queue = <<>>
        /\ timers = {Entry(Unwrap(timer[t].deadline), timer_id - 1,
                           Unwrap(last_call.waker))}


\* C38: the exit request is sticky: exit_requested() gives nothing exactly
\* as long as no request_exit has stored its value, and once it gives a
\* code it never gives nothing again, whatever the code; a request_exit
\* call has stored its value before it wakes the native loop, so what the
\* loop reads after that wake-up is a code; and the value is stored also
\* when no wake-up handle is set.
ExitIsSticky ==
    [][/\ IsSome(exit_requested(exit_code')) <=> IsSome(last_request')
       /\ IsSome(exit_requested(exit_code)) => IsSome(exit_requested(exit_code'))
       /\ \A r \in Requesters :
             (exit_pc[r] = "idle" /\ exit_pc'[r] = "notify")
                => /\ IsSome(exit_requested(exit_code'))
                   /\ wake_pending' = wake_pending
       /\ \A r \in Requesters :
             (exit_pc[r] = "notify" /\ exit_pc'[r] = "idle")
                => /\ IsSome(exit_requested(exit_code))
                   /\ exit_code' = exit_code
                   /\ wake_pending' = (wake_pending \/ IsSome(proxy))
       /\ observed' # observed
             => (IsSome(last_request) => IsSome(observed'))]_vars

\* C38 witness: request_exit(0) has returned while no wake-up handle was
\* set, so the loop was not woken, and the loop has read the code 0 on a
\* later iteration.
ZeroExitObserved ==
    /\ last_request = Some(0)
    /\ \A r \in Requesters : exit_pc[r] = "idle"
    /\ proxy = None
    /\ ~wake_pending
    /\ observed = Some(0)
    /\ exit_requested(exit_code) = Some(0)

====
